---- MODULE Spec2Model ----
(***************************************************************************)
(* Model of the benchmark controller of parakeet.js-benchmark (App.jsx as  *)
(* listed in space_template/README.md, second listing): the model          *)
(* lifecycle (loadModel, verifyModel, the configuration-change effects,    *)
(* the release queue) and the trial executor (runBenchmark, stopRun, the   *)
(* run log).  JavaScript runs one task at a time, so every action is the   *)
(* code executed between two suspension points (await) of a handler.       *)
(***************************************************************************)
EXTENDS Integers, Sequences, FiniteSets, TLC

\* ---------------------------------------------------------------- bounds
MaxSamples == 2      \* prepared samples per batch
MaxRepeat == 2       \* largest repeatCount setting explored
MaxWarmups == 1      \* largest warmups setting explored
MaxBatches == 2      \* runBenchmark invocations explored
MaxModels == 2       \* models compiled by loadModel
MaxClears == 1       \* uses of the Clear button explored
MaxAdds == 3         \* snapshots saved or imported in a session
MaxDeletes == 1      \* deleteSnapshot calls explored
MaxTicks == 1        \* milliseconds that pass in a session of the store
MaxTotal == 2        \* largest row count handed to the sampler
MaxCount == 2        \* largest sample count handed to the sampler
MaxRetries == 2      \* largest options.retries handed to fetchJson
MaxCacheTime == 3    \* milliseconds that pass in a session of the cache
MaxTtl == 1          \* largest ttlMs handed to readThroughCache
MaxFieldLen == 2     \* longest field value handed to toCsv
MaxPoints == 3       \* most points handed to linearFit
MaxCoord == 2        \* largest coordinate of a point
MaxValues == 3       \* most values handed to mean, median, stddev, percentile
MaxValue == 3        \* largest of the values
MaxTextLen == 3      \* longest string handed to textSimilarity
MaxTrials == 3       \* largest repeatCount of the batches of trials
MaxLimit == 201      \* largest limit handed to fetchSequentialRows
MaxTasks == 3        \* most requests handed to enqueueRequest

\* ------------------------------------------------------------ the state
VARIABLES
    modelRef,         \* modelRef.current: 0 (null) or a model id
    nextModel,        \* number of models compiled so far
    isModelReady,     \* React state
    isLoadingModel,   \* React state
    isRunning,        \* React state
    stopRef,          \* stopRef.current
    runs,             \* the run log (React state `runs`)
    preparedSamples,  \* preparedSamples.length
    repeatCount,      \* React state
    warmups,          \* React state
    optionsFetch,     \* the fetchModelFiles effect is still pending
    resultKind,       \* the metrics the backend reports in this session
    relQueue,         \* the promise chain of releaseQueueRef
    load,             \* position and locals of loadModel
    bench,            \* position and locals of runBenchmark
    inflight,         \* transcribe calls in flight
    started,          \* transcribe calls started by the latest step
    batches,          \* number of runBenchmark invocations so far
    clears,           \* number of Clear clicks so far
    emitted,          \* Runs emitted by the finished batches since Clear
    lastBatch,        \* record of the batch that ended last
    progress,         \* React state `progress` (current, total)
    benchStatus       \* React state `benchStatus`, by the kind of message

\* the snapshot store
VARIABLES
    snapshots,        \* React state `snapshots`, newest first
    clock,            \* Date.now()
    adds,             \* number of snapshots saved or imported so far
    deletes           \* number of deleteSnapshot calls so far

\* the controller state except the run log
ctlVarsButRuns ==
    << modelRef, nextModel, isModelReady, isLoadingModel, isRunning,
       stopRef, preparedSamples, repeatCount, warmups,
       optionsFetch, resultKind, relQueue, load, bench, inflight, started,
       batches, clears, emitted, lastBatch, progress, benchStatus >>

storeVars == << snapshots, clock, adds, deletes >>

\* the state of the App component
appVars == << ctlVarsButRuns, runs, storeVars >>

\* the seeded sampler (fetchRandomRows, pickUniqueRandomIndices)
VARIABLES
    smp,              \* the arguments of the sampler calls
    inv               \* the locals of each sampler invocation

samplerVars == << smp, inv >>

\* fetchJson
VARIABLES
    fj                \* the locals of a fetchJson call and the requests it sent

fetchVars == << fj >>

\* the read-through cache of dataset metadata and rows
VARIABLES
    cacheEntry,       \* localStorage under the key: << >> or << entry >>
    cacheNow,         \* Date.now()
    rtc               \* the locals of a readThroughCache call and its outcome

cacheVars == << cacheEntry, cacheNow, rtc >>

\* the pure functions of the metrics module
VARIABLES
    calc              \* the arguments of a call and, once it returned, its result

calcVars == << calc >>

\* the trials of a batch, with the texts they return
VARIABLES
    trials            \* the locals of the sample loop of runBenchmark

trialVars == << trials >>

\* the calls of the other utilities
VARIABLES
    ldr,              \* a call of loadModelWithFallback
    seq,              \* a call of fetchSequentialRows
    rq,               \* requestQueue of hfDataset.js and the tasks given to it
    rel               \* releaseQueueRef and the sessions of the models given to it

loaderVars == << ldr >>
seqVars == << seq >>
queueVars == << rq >>
releaseVars == << rel >>

\* the state of the utilities outside the App component
utilVars == << samplerVars, fetchVars, cacheVars, calcVars, trialVars,
    loaderVars, seqVars, queueVars, releaseVars >>

\* what the actions of one utility leave alone
notSampler == << appVars, fetchVars, cacheVars, calcVars, trialVars,
    loaderVars, seqVars, queueVars, releaseVars >>
notFetch == << appVars, samplerVars, cacheVars, calcVars, trialVars,
    loaderVars, seqVars, queueVars, releaseVars >>
notCache == << appVars, samplerVars, fetchVars, calcVars, trialVars,
    loaderVars, seqVars, queueVars, releaseVars >>
notCalc == << appVars, samplerVars, fetchVars, cacheVars, trialVars,
    loaderVars, seqVars, queueVars, releaseVars >>
notTrials == << appVars, samplerVars, fetchVars, cacheVars, calcVars,
    loaderVars, seqVars, queueVars, releaseVars >>
notLoader == << appVars, samplerVars, fetchVars, cacheVars, calcVars, trialVars,
    seqVars, queueVars, releaseVars >>
notSeq == << appVars, samplerVars, fetchVars, cacheVars, calcVars, trialVars,
    loaderVars, queueVars, releaseVars >>
notQueue == << appVars, samplerVars, fetchVars, cacheVars, calcVars, trialVars,
    loaderVars, seqVars, releaseVars >>
notRelease == << appVars, samplerVars, fetchVars, cacheVars, calcVars, trialVars,
    loaderVars, seqVars, queueVars >>

\* what the controller actions leave alone
nonCtlVars == << storeVars, utilVars >>

vars == << appVars, utilVars >>

\* the metrics field of a transcribe result: a metrics object with a finite
\* total_ms, a metrics object without one, or no metrics object at all.
\* What the backend reports depends on the enableProfiling option and on
\* the backend build, which are fixed here for a session.
ResultMetrics == {"full", "sparse", "null"}

\* ------------------------------------------------------ release queue
\* queueModelRelease chains the new release after the current tail of
\* releaseQueueRef; pred is the entry the new task waits for (0: none).
QueuePred(queue) == Len(queue)

QueueModelRelease(queue, model) ==
    IF model = 0 THEN queue
    ELSE Append(queue, [model |-> model, pred |-> QueuePred(queue), st |-> "queued"])

\* variant: for a null model queueModelRelease returns a resolved promise
AwaitedReleaseNullResolved(queue, model) ==
    IF model = 0 THEN 0 ELSE Len(queue) + 1

\* the promise queueModelRelease(model) returns, as the entry of the chain
\* that settles it (0: already resolved): the new task, or for a null model
\* releaseQueueRef.current, the tail of the chain
AwaitedRelease(queue, model) ==
    IF model = 0 THEN Len(queue) ELSE Len(queue) + 1

\* the models handed to queueModelRelease so far
QueuedModels == { relQueue[i].model : i \in DOMAIN relQueue }

\* variant: a promise of the chain counts as settled at once
ReleaseSettledAlways(i) == TRUE

\* the promise an `await queueModelRelease(model)` waits on has settled:
\* the task of `model`, or for a null model the tail of the chain
ReleaseSettled(i) == IF i = 0 THEN TRUE ELSE relQueue[i].st = "done"

\* releaseModelResources(model) begins once the preceding promise settled
ReleaseStart(i) ==
    /\ i \in DOMAIN relQueue
    /\ relQueue[i].st = "queued"
    /\ ReleaseSettled(relQueue[i].pred)
    /\ relQueue' = [relQueue EXCEPT ![i].st = "running"]
    /\ started' = {}
    /\ UNCHANGED << modelRef, nextModel, isModelReady, isLoadingModel, isRunning,
                    stopRef, runs, preparedSamples, repeatCount, warmups,
                    optionsFetch, resultKind, load, bench, inflight,
                    batches, clears, emitted, lastBatch >>
    /\ UNCHANGED << progress, benchStatus, nonCtlVars >>

\* every session.release() settled (errors are swallowed)
ReleaseDone(i) ==
    /\ i \in DOMAIN relQueue
    /\ relQueue[i].st = "running"
    /\ relQueue' = [relQueue EXCEPT ![i].st = "done"]
    /\ started' = {}
    /\ UNCHANGED << modelRef, nextModel, isModelReady, isLoadingModel, isRunning,
                    stopRef, runs, preparedSamples, repeatCount, warmups,
                    optionsFetch, resultKind, load, bench, inflight,
                    batches, clears, emitted, lastBatch >>
    /\ UNCHANGED << progress, benchStatus, nonCtlVars >>

\* ------------------------------------------------- configuration effects
\* the effect on [modelKey, backend, encoderQuant, ...]: detach the model,
\* queue its release, clear readiness
InvalidateModel ==
    /\ modelRef' = 0
    /\ relQueue' = QueueModelRelease(relQueue, modelRef)
    /\ isModelReady' = FALSE

\* a configuration control is changed by the user; the controls are
\* disabled while a model loads or a batch runs.  A change of modelKey
\* also restarts the fetchModelFiles effect.
ConfigChange ==
    /\ ~isLoadingModel /\ ~isRunning
    /\ InvalidateModel
    /\ \E restart \in BOOLEAN : optionsFetch' = (optionsFetch \/ restart)
    /\ started' = {}
    /\ UNCHANGED << nextModel, isLoadingModel, isRunning, stopRef, runs,
                    preparedSamples, repeatCount, warmups, resultKind, load, bench,
                    inflight, batches, clears, emitted, lastBatch >>
    /\ UNCHANGED << progress, benchStatus, nonCtlVars >>

\* fetchModelFiles resolves: the quantization options are replaced and, when
\* the current quantization is not among them, the auto-select effect picks
\* another one, which runs the configuration-change effect
QuantOptionsArrive ==
    /\ optionsFetch
    /\ optionsFetch' = FALSE
    /\ \E changed \in BOOLEAN :
         IF changed THEN InvalidateModel
         ELSE UNCHANGED << modelRef, relQueue, isModelReady >>
    /\ started' = {}
    /\ UNCHANGED << nextModel, isLoadingModel, isRunning, stopRef, runs,
                    preparedSamples, repeatCount, warmups, resultKind, load, bench,
                    inflight, batches, clears, emitted, lastBatch >>
    /\ UNCHANGED << progress, benchStatus, nonCtlVars >>

\* ------------------------------------------------------------ loadModel
\* locals of loadModel: prev is previousModel, wait the release it awaits,
\* model the argument of verifyModel
IdleLoad == [pc |-> "idle", wait |-> 0, model |-> 0, prev |-> 0]

\* the catch block of loadModel: detach whatever modelRef holds, queue its
\* release and await it; `finally` runs when that release has settled
LoadCatch ==
    /\ modelRef' = 0
    /\ relQueue' = QueueModelRelease(relQueue, modelRef)
    /\ load' = [pc |-> "failRelease", wait |-> AwaitedRelease(relQueue, modelRef),
                model |-> 0, prev |-> 0]

\* variant: the button stays enabled while a batch runs
CanLoadModelWhileRunning == ~isLoadingModel /\ ~isModelReady

\* the "Load model" button is disabled while loading, running or ready
CanLoadModel == ~isLoadingModel /\ ~isRunning /\ ~isModelReady

\* click on "Load model", up to `await queueModelRelease(previousModel)`
LoadModelStart ==
    /\ CanLoadModel
    /\ load.pc = "idle"
    /\ isLoadingModel' = TRUE
    /\ isModelReady' = FALSE
    /\ modelRef' = 0
    /\ relQueue' = QueueModelRelease(relQueue, modelRef)
    /\ load' = [pc |-> "awaitRelease", wait |-> AwaitedRelease(relQueue, modelRef),
                model |-> 0, prev |-> modelRef]
    /\ started' = {}
    /\ UNCHANGED << nextModel, isRunning, stopRef, runs, preparedSamples,
                    repeatCount, warmups, optionsFetch, resultKind, bench, inflight,
                    batches, clears, emitted, lastBatch >>
    /\ UNCHANGED << progress, benchStatus, nonCtlVars >>

\* the awaited release settled; getParakeetModel starts downloading
LoadAfterRelease ==
    /\ load.pc = "awaitRelease"
    /\ ReleaseSettled(load.wait)
    /\ load' = [load EXCEPT !.pc = "download"]
    /\ started' = {}
    /\ UNCHANGED << modelRef, nextModel, isModelReady, isLoadingModel, isRunning,
                    stopRef, runs, preparedSamples, repeatCount, warmups,
                    optionsFetch, resultKind, relQueue, bench, inflight,
                    batches, clears, emitted, lastBatch >>
    /\ UNCHANGED << progress, benchStatus, nonCtlVars >>

\* getParakeetModel settles; on success ParakeetModel.fromUrls starts
LoadDownloadDone ==
    /\ load.pc = "download"
    /\ \E ok \in BOOLEAN :
         IF ok THEN /\ load' = [load EXCEPT !.pc = "compile"]
                    /\ UNCHANGED << modelRef, relQueue >>
         ELSE LoadCatch
    /\ started' = {}
    /\ UNCHANGED << nextModel, isModelReady, isLoadingModel, isRunning,
                    stopRef, runs, preparedSamples, repeatCount, warmups,
                    optionsFetch, resultKind, bench, inflight,
                    batches, clears, emitted, lastBatch >>
    /\ UNCHANGED << progress, benchStatus, nonCtlVars >>

\* ParakeetModel.fromUrls settles; on success the new model is stored in
\* modelRef and verifyModel(modelRef.current) starts decoding its audio
LoadCompileDone ==
    /\ load.pc = "compile"
    /\ \E ok \in BOOLEAN :
         IF ok THEN /\ nextModel < MaxModels
                    /\ nextModel' = nextModel + 1
                    /\ modelRef' = nextModel + 1
                    /\ load' = [pc |-> "verifyDecode", wait |-> 0,
                                model |-> nextModel + 1, prev |-> 0]
                    /\ UNCHANGED relQueue
         ELSE /\ LoadCatch
              /\ UNCHANGED nextModel
    /\ started' = {}
    /\ UNCHANGED << isModelReady, isLoadingModel, isRunning,
                    stopRef, runs, preparedSamples, repeatCount, warmups,
                    optionsFetch, resultKind, bench, inflight,
                    batches, clears, emitted, lastBatch >>
    /\ UNCHANGED << progress, benchStatus, nonCtlVars >>

\* verifyModel: the warm-up audio is decoded (or every candidate failed);
\* on success the reference transcription starts on the `model` argument
VerifyDecodeDone ==
    /\ load.pc = "verifyDecode"
    /\ \E ok \in BOOLEAN :
         IF ok THEN /\ load' = [load EXCEPT !.pc = "verifyCall"]
                    /\ started' = {[who |-> "verify", model |-> load.model]}
                    /\ inflight' = inflight \cup started'
                    /\ UNCHANGED << modelRef, relQueue >>
         ELSE /\ LoadCatch
              /\ started' = {}
              /\ UNCHANGED inflight
    /\ UNCHANGED << nextModel, isModelReady, isLoadingModel, isRunning,
                    stopRef, runs, preparedSamples, repeatCount, warmups,
                    optionsFetch, resultKind, bench,
                    batches, clears, emitted, lastBatch >>
    /\ UNCHANGED << progress, benchStatus, nonCtlVars >>

\* the reference transcription settles: with the expected phrase the model
\* becomes ready; a throw or a mismatch goes to the catch block
VerifyCallDone ==
    /\ load.pc = "verifyCall"
    /\ inflight' = inflight \ {[who |-> "verify", model |-> load.model]}
    /\ \E ok \in BOOLEAN :
         IF ok THEN /\ isModelReady' = TRUE
                    /\ isLoadingModel' = FALSE
                    /\ load' = IdleLoad
                    /\ UNCHANGED << modelRef, relQueue >>
         ELSE /\ LoadCatch
              /\ UNCHANGED << isModelReady, isLoadingModel >>
    /\ started' = {}
    /\ UNCHANGED << nextModel, isRunning, stopRef, runs, preparedSamples,
                    repeatCount, warmups, optionsFetch, resultKind, bench,
                    batches, clears, emitted, lastBatch >>
    /\ UNCHANGED << progress, benchStatus, nonCtlVars >>

\* the release awaited in the catch block settled; `finally`
LoadFailDone ==
    /\ load.pc = "failRelease"
    /\ ReleaseSettled(load.wait)
    /\ isLoadingModel' = FALSE
    /\ load' = IdleLoad
    /\ started' = {}
    /\ UNCHANGED << modelRef, nextModel, isModelReady, isRunning,
                    stopRef, runs, preparedSamples, repeatCount, warmups,
                    optionsFetch, resultKind, relQueue, bench, inflight,
                    batches, clears, emitted, lastBatch >>
    /\ UNCHANGED << progress, benchStatus, nonCtlVars >>

\* ---------------------------------------------------------- runBenchmark
\* locals of runBenchmark (prog is the argument of the latest setProgress
\* call of the batch, << >> before the first one): n = samples.length, rc and wu the repeatCount and
\* warmups its closure captured, s w r the loop counters (s is 1-based),
\* done, out.  decoded, decFailed, calls, stopSeen, infFailed and
\* stopInflight record what happened in the batch: the samples whose audio
\* decoded, the samples whose decode failed, the
\* transcribe calls made per sample, whether stop was requested, whether a
\* transcribe expression threw, and the measured trial <<s, r>> that was in
\* flight when stop was requested.
IdleBench ==
    [pc |-> "idle", batch |-> 0, n |-> 0, rc |-> 0, wu |-> 0, s |-> 0, w |-> 0,
     r |-> 0, done |-> 0, out |-> << >>, decoded |-> {}, decFailed |-> {},
     calls |-> << >>,
     stopSeen |-> FALSE, infFailed |-> FALSE, stopInflight |-> << >>,
     prog |-> << >>]

NoBatch == [status |-> "none", b |-> IdleBench]

\* variant: the total is that of the samples still to do
SetProgressRemaining(b) ==
    [b EXCEPT !.prog = << [current |-> b.done, total |-> (b.n - b.s + 1) * b.rc] >>]

\* setProgress({ current: done, total, ... }) with total = samples.length *
\* repeatCount
SetProgress(b) ==
    [b EXCEPT !.prog = << [current |-> b.done, total |-> b.n * b.rc] >>]

\* the Run pushed when decodeAudio throws
DecodeErrorRun(b) ==
    [batch |-> b.batch, sample |-> b.s, repeatIndex |-> 0,
     error |-> "decode", metrics |-> "null"]

\* variant: the error Run keeps a metrics object
TranscribeErrorRunWithMetrics(b) ==
    [batch |-> b.batch, sample |-> b.s, repeatIndex |-> b.r,
     error |-> "transcribe", metrics |-> "full"]

\* the Run pushed when a measured transcribe throws
TranscribeErrorRun(b) ==
    [batch |-> b.batch, sample |-> b.s, repeatIndex |-> b.r,
     error |-> "transcribe", metrics |-> "null"]

\* variant: every success Run is numbered 1
SuccessRunFirstIndex(b, m) ==
    [batch |-> b.batch, sample |-> b.s, repeatIndex |-> 1,
     error |-> "none", metrics |-> m]

\* the Run pushed when a measured transcribe returns; metrics: result.metrics
SuccessRun(b, m) ==
    [batch |-> b.batch, sample |-> b.s, repeatIndex |-> b.r,
     error |-> "none", metrics |-> m]

\* variant: a decode failure ends the sample loop
SampleTopFatal(b, stop) ==
    IF b.s > b.n \/ stop \/ b.decFailed # {}
    THEN [b EXCEPT !.pc = "finishOk"]
    ELSE [SetProgress(b) EXCEPT !.pc = "decode"]

\* head of the sample loop: leave it when the samples are exhausted or stop
\* is set (then setRuns and `finally` follow), else await decodeAudio
SampleTop(b, stop) ==
    IF b.s > b.n \/ stop
    THEN [b EXCEPT !.pc = "finishOk"]
    ELSE [SetProgress(b) EXCEPT !.pc = "decode"]

\* head of the measured loop.  With modelRef.current null the expression
\* modelRef.current.transcribe(...) throws inside the try block: an error
\* Run is pushed and the loop goes on without suspending.
RECURSIVE MeasTop(_, _, _)
MeasTop(b, stop, model) ==
    IF b.r > b.rc \/ stop
    THEN SampleTop([b EXCEPT !.s = @ + 1], stop)
    ELSE IF model = 0
    THEN MeasTop([SetProgress(b) EXCEPT !.out = Append(@, TranscribeErrorRun(b)),
                                        !.done = @ + 1, !.r = @ + 1,
                                        !.infFailed = TRUE], stop, model)
    ELSE [SetProgress(b) EXCEPT !.pc = "meas", !.calls[b.s] = @ + 1]

\* what a throw in the warm-up loop does: the loop has no try block of its
\* own, so the error reaches the catch of runBenchmark
WarmupThrow(b) == [b EXCEPT !.pc = "finishFail", !.infFailed = TRUE]

\* variant: the warm-up loop does not look at the stop flag
WarmTopIgnoresStop(b, stop, model) ==
    IF b.w >= b.wu
    THEN MeasTop([b EXCEPT !.r = 1], stop, model)
    ELSE IF model = 0
    THEN WarmupThrow(SetProgress(b))
    ELSE [SetProgress(b) EXCEPT !.pc = "warm", !.calls[b.s] = @ + 1]

\* head of the warm-up loop
WarmTop(b, stop, model) ==
    IF b.w >= b.wu \/ stop
    THEN MeasTop([b EXCEPT !.r = 1], stop, model)
    ELSE IF model = 0
    THEN WarmupThrow(SetProgress(b))
    ELSE [SetProgress(b) EXCEPT !.pc = "warm", !.calls[b.s] = @ + 1]

\* the transcribe call of a suspended runBenchmark
BenchCall(b) == [who |-> "bench", model |-> modelRef]

\* variant: `finally` leaves the stop flag as it is
FinallyStopFlagKept(stop) == stop

\* `finally` of runBenchmark: stopRef.current = false
FinallyStopFlag(stop) == FALSE

\* runBenchmark runs on to position b: it suspends at an await, or it ends
\* through setRuns((prev) => [...prev, ...out]), setBenchStatus and
\* setProgress, or through the catch block, and then through `finally`
Settle(b) ==
    IF b.pc \in {"finishOk", "finishFail"}
    THEN /\ runs' = IF b.pc = "finishOk" THEN runs \o b.out ELSE runs
         /\ progress' = IF b.pc = "finishOk" THEN SetProgress(b).prog[1]
                         ELSE IF b.prog = << >> THEN progress ELSE b.prog[1]
         /\ benchStatus' = IF b.pc = "finishFail" THEN "failed"
                            ELSE IF stopRef THEN "stopped" ELSE "completed"
         /\ emitted' = emitted + Len(b.out)
         /\ stopRef' = FinallyStopFlag(stopRef)
         /\ isRunning' = FALSE
         /\ bench' = IdleBench
         /\ lastBatch' = [status |-> IF b.pc = "finishOk" THEN "completed" ELSE "failed",
                          b |-> b]
         /\ started' = {}
         /\ inflight' = { c \in inflight : c.who # "bench" }
    ELSE /\ bench' = b
         /\ started' = IF b.pc \in {"warm", "meas"} THEN {BenchCall(b)} ELSE {}
         /\ inflight' = { c \in inflight : c.who # "bench" } \cup started'
         /\ progress' = IF b.prog = << >> THEN progress ELSE b.prog[1]
         /\ UNCHANGED << runs, emitted, stopRef, isRunning, lastBatch, benchStatus >>

\* the "Start benchmark" button is disabled while running, loading or not
\* ready
CanRunBenchmark == ~isRunning /\ ~isLoadingModel /\ isModelReady

\* variant: the entry check of runBenchmark looks at the flag only
RunBenchmarkRefusesUnready == ~isModelReady

\* the entry check of runBenchmark: `!modelRef.current || !isModelReady`
\* sets the status message and returns
RunBenchmarkRefuses == modelRef = 0 \/ ~isModelReady

\* click on "Start benchmark", up to the first await
RunBenchmarkStart ==
    /\ CanRunBenchmark
    /\ bench.pc = "idle"
    /\ batches < MaxBatches
    /\ IF RunBenchmarkRefuses
       THEN /\ benchStatus' = "refused"
            /\ started' = {}
            /\ UNCHANGED << runs, emitted, stopRef, isRunning, bench, lastBatch,
                            inflight, batches, progress >>
       ELSE /\ batches' = batches + 1
            /\ benchStatus' = "starting"
            /\ isRunning' = TRUE
            /\ stopRef' = FALSE
            /\ lastBatch' = NoBatch
            /\ started' = {}
            /\ LET b == [IdleBench EXCEPT
                                !.pc = "prepare",
                                !.batch = batches + 1,
                                !.n = preparedSamples,
                                !.calls = [i \in 1..preparedSamples |-> 0],
                                !.rc = repeatCount, !.wu = warmups, !.s = 1]
               IN bench' = IF preparedSamples > 0 THEN SampleTop(b, FALSE) ELSE b
            /\ progress' = IF bench'.prog = << >> THEN progress ELSE bench'.prog[1]
            /\ UNCHANGED << runs, emitted, inflight >>
    /\ UNCHANGED << modelRef, nextModel, isModelReady, isLoadingModel,
                    preparedSamples, repeatCount, warmups, optionsFetch, resultKind,
                    relQueue, load, clears >>
    /\ UNCHANGED nonCtlVars

\* prepareSampleRows settles inside runBenchmark: n playable rows, or it
\* throws (no playable rows, network failure)
PrepareDone ==
    /\ bench.pc = "prepare"
    /\ \E n \in 0..MaxSamples :
         IF n = 0
         THEN /\ Settle([bench EXCEPT !.pc = "finishFail"])
              /\ UNCHANGED preparedSamples
         ELSE /\ preparedSamples' = n
              /\ Settle(SampleTop([bench EXCEPT !.n = n, !.calls = [i \in 1..n |-> 0]],
                                   stopRef))
    /\ UNCHANGED << modelRef, nextModel, isModelReady, isLoadingModel,
                    repeatCount, warmups, optionsFetch, resultKind,
                    relQueue, load, batches, clears >>
    /\ UNCHANGED nonCtlVars

\* decodeAudio settles for sample s
DecodeDone ==
    /\ bench.pc = "decode"
    /\ \E ok \in BOOLEAN :
         IF ok
         THEN Settle(WarmTop([bench EXCEPT !.w = 0, !.decoded = @ \cup {bench.s}],
                             stopRef, modelRef))
         ELSE Settle(SampleTop([bench EXCEPT !.out = Append(@, DecodeErrorRun(bench)),
                                             !.decFailed = @ \cup {bench.s},
                                             !.s = @ + 1], stopRef))
    /\ UNCHANGED << modelRef, nextModel, isModelReady, isLoadingModel,
                    preparedSamples, repeatCount, warmups, optionsFetch, resultKind,
                    relQueue, load, batches, clears >>
    /\ UNCHANGED nonCtlVars

\* a warm-up transcribe settles: its result is dropped, a throw ends the batch
WarmDone ==
    /\ bench.pc = "warm"
    /\ \E ok \in BOOLEAN :
         IF ok
         THEN Settle(WarmTop([bench EXCEPT !.w = @ + 1], stopRef, modelRef))
         ELSE Settle(WarmupThrow(bench))
    /\ UNCHANGED << modelRef, nextModel, isModelReady, isLoadingModel,
                    preparedSamples, repeatCount, warmups, optionsFetch, resultKind,
                    relQueue, load, batches, clears >>
    /\ UNCHANGED nonCtlVars

\* a measured transcribe settles: a Run is pushed, done += 1
MeasDone ==
    /\ bench.pc = "meas"
    /\ \E res \in {resultKind, "throw"} :
         LET run == IF res = "throw" THEN TranscribeErrorRun(bench)
                    ELSE SuccessRun(bench, res)
         IN Settle(MeasTop([bench EXCEPT !.out = Append(@, run),
                                         !.done = @ + 1, !.r = @ + 1,
                                         !.infFailed = @ \/ (res = "throw")],
                           stopRef, modelRef))
    /\ UNCHANGED << modelRef, nextModel, isModelReady, isLoadingModel,
                    preparedSamples, repeatCount, warmups, optionsFetch, resultKind,
                    relQueue, load, batches, clears >>
    /\ UNCHANGED nonCtlVars

\* click on "Stop" (enabled while a batch runs)
StopRun ==
    /\ isRunning
    /\ stopRef' = TRUE
    /\ benchStatus' = "stopping"
    /\ bench' = [bench EXCEPT
                    !.stopSeen = TRUE,
                    !.stopInflight = IF ~bench.stopSeen /\ bench.pc = "meas"
                                     THEN << bench.s, bench.r >> ELSE @]
    /\ started' = {}
    /\ UNCHANGED << modelRef, nextModel, isModelReady, isLoadingModel, isRunning,
                    runs, preparedSamples, repeatCount, warmups, optionsFetch,
                    resultKind, relQueue, load, inflight, batches, clears, emitted,
                    lastBatch, progress >>
    /\ UNCHANGED nonCtlVars

\* click on "Clear" (enabled with a non-empty log and no batch running)
ClearRuns ==
    /\ ~isRunning /\ Len(runs) > 0
    /\ clears < MaxClears
    /\ clears' = clears + 1
    /\ runs' = << >>
    /\ emitted' = 0
    /\ lastBatch' = NoBatch
    /\ started' = {}
    /\ UNCHANGED << modelRef, nextModel, isModelReady, isLoadingModel, isRunning,
                    stopRef, preparedSamples, repeatCount, warmups, optionsFetch,
                    resultKind, relQueue, load, bench, inflight, batches >>
    /\ UNCHANGED << progress, benchStatus, nonCtlVars >>

\* click on "Clear cache" (enabled while no batch runs and no dataset
\* loads): the caches are emptied and the prepared samples dropped
ClearDatasetCache ==
    /\ ~isRunning
    /\ preparedSamples > 0
    /\ preparedSamples' = 0
    /\ started' = {}
    /\ UNCHANGED << modelRef, nextModel, isModelReady, isLoadingModel, isRunning,
                    stopRef, runs, repeatCount, warmups, optionsFetch,
                    resultKind, relQueue, load, bench, inflight, batches, clears,
                    emitted, lastBatch, progress, benchStatus >>
    /\ UNCHANGED nonCtlVars

\* ------------------------------------------------------ 32-bit words
\* JavaScript's Math.imul, ^, |, >>> and ToUint32 work on 32-bit words.  A
\* word is the pair << high, low >> of its 16-bit halves.
Half == 2 ^ 16

RECURSIVE BitXor(_, _, _)
BitXor(a, b, n) ==
    IF n = 0 THEN 0
    ELSE ((a + b) % 2) + 2 * BitXor(a \div 2, b \div 2, n - 1)

RECURSIVE BitOr(_, _, _)
BitOr(a, b, n) ==
    IF n = 0 THEN 0
    ELSE (IF (a % 2) + (b % 2) > 0 THEN 1 ELSE 0)
         + 2 * BitOr(a \div 2, b \div 2, n - 1)

\* x ^ y
Xor32(x, y) == << BitXor(x[1], y[1], 16), BitXor(x[2], y[2], 16) >>

\* x | y
Or32(x, y) == << BitOr(x[1], y[1], 16), BitOr(x[2], y[2], 16) >>

\* x >>> k, for 0 < k < 16
Shr32(x, k) ==
    << x[1] \div (2 ^ k), (x[2] \div (2 ^ k)) + (x[1] % (2 ^ k)) * (2 ^ (16 - k)) >>

\* ToUint32(x + y)
Add32(x, y) ==
    LET lo == x[2] + y[2]
    IN << (x[1] + y[1] + lo \div Half) % Half, lo % Half >>

\* the product of two 16-bit halves, as a word
Mul16(a, b) ==
    LET p1 == a * (b % 256)
        p2 == a * (b \div 256)
        sum == p1 + (p2 % 256) * 256
    IN << sum \div Half + p2 \div 256, sum % Half >>

\* Math.imul(x, y): the low 32 bits of the product
Imul(x, y) ==
    LET ll == Mul16(x[2], y[2])
    IN << (ll[1] + Mul16(x[1], y[2])[2] + Mul16(x[2], y[1])[2]) % Half, ll[2] >>

\* ------------------------------------------------------------- sampler
\* 2166136261, 16777619 and 0x6D2B79F5 as words
FNV_OFFSET == << 33052, 40389 >>
FNV_PRIME == << 256, 403 >>
MULBERRY_STEP == << 27947, 31221 >>

\* the seed texts explored, as char codes: "42" and "a"; << >> is the
\* empty (absent) seed
SeedTexts == { << 52, 50 >>, << 97 >> }

\* the loop of normalizeSeed / createSeededRng: h ^= charCode, h = imul(h, prime)
RECURSIVE FnvHash(_, _)
FnvHash(h, text) ==
    IF text = << >> THEN h
    ELSE FnvHash(Imul(Xor32(h, << 0, Head(text) >>), FNV_PRIME), Tail(text))

\* normalizeSeed(seed) for a non-empty seed
NormalizeSeed(seed) == FnvHash(FNV_OFFSET, seed)

\* next() of createMulberry32: t += 0x6D2B79F5
MulberryStep(t) == Add32(t, MULBERRY_STEP)

\* next() of createMulberry32: the word it returns (before the division by
\* 4294967296) for the advanced state t
MulberryOut(t) ==
    LET x1 == Imul(Xor32(t, Shr32(t, 15)), Or32(t, << 0, 1 >>))
        x2 == Xor32(x1, Add32(x1, Imul(Xor32(x1, Shr32(x1, 7)), Or32(x1, << 0, 61 >>))))
    IN Xor32(x2, Shr32(x2, 14))

\* Math.floor((w / 4294967296) * m)
ScaleToIndex(w, m) == (w[1] * m + (w[2] * m) \div Half) \div Half

Min(a, b) == IF a < b THEN a ELSE b

Max(a, b) == IF a > b THEN a ELSE b

\* variant: every call draws from Math.random
UsesMathRandomAlways(seed) == TRUE

\* seedValue === null ? Math.random : createMulberry32(seedValue)
UsesMathRandom(seed) == seed = << >>

\* the factor of rand(): maxRows of fetchRandomRows (Number(totalRows) || 1,
\* at least 1), maxTotal of pickUniqueRandomIndices
SamplerRange(s) ==
    IF s.fn = "fetchRandomRows"
    THEN Max(1, IF s.total = 0 THEN 1 ELSE s.total)
    ELSE Max(0, s.total)

\* the local `wanted` of the two functions
SamplerWanted(s) ==
    IF s.fn = "fetchRandomRows"
    THEN Min(Max(1, IF s.count = 0 THEN 1 ELSE s.count), SamplerRange(s))
    ELSE Max(0, Min(SamplerRange(s), s.count))

\* variant: the cap is maxRows + wanted * 20 alone
MaxOffsetAttemptsLoose(maxRows, wanted) == maxRows + wanted * 20

\* maxOffsetAttempts of fetchRandomRows
MaxOffsetAttempts(maxRows, wanted) == Min(maxRows * 3, maxRows + wanted * 20)

\* draws of pickUniqueRandomIndices explored: one more than any cap of
\* fetchRandomRows
MaxDraws == MaxTotal * 3 + 1

\* variant: the loops go on while size <= wanted
KeepDrawingOneMore(s, i) ==
    IF s.fn = "fetchRandomRows"
    THEN /\ Cardinality(i.selected) <= SamplerWanted(s)
         /\ i.attempts < MaxOffsetAttempts(SamplerRange(s), SamplerWanted(s))
         /\ Cardinality(i.selected) < SamplerRange(s)
    ELSE Cardinality(i.selected) <= SamplerWanted(s)

\* the loop conditions: of the while loop of fetchRandomRows, and of the
\* while loop of pickUniqueRandomIndices (entered only with wanted > 0)
KeepDrawing(s, i) ==
    IF s.fn = "fetchRandomRows"
    THEN /\ Cardinality(i.selected) < SamplerWanted(s)
         /\ i.attempts < MaxOffsetAttempts(SamplerRange(s), SamplerWanted(s))
         /\ Cardinality(i.selected) < SamplerRange(s)
    ELSE Cardinality(i.selected) < SamplerWanted(s)

PAGE_LENGTH == 100

\* Math.floor(offset / 100) * 100
PageStart(offset) == (offset \div PAGE_LENGTH) * PAGE_LENGTH

\* the offsets of requestedOffsets that fall into the page, in their order
OffsetsInPage(requested, pageStart) ==
    SelectSeq(requested, LAMBDA offset : PageStart(offset) = pageStart)

\* the page starts still to fetch, after the pages in `fetched`
PagesLeft(i) == { PageStart(i.requested[k]) : k \in DOMAIN i.requested } \ i.fetched

\* the least element of a non-empty set of numbers
Least(S) == CHOOSE x \in S : \A y \in S : x <= y

\* the two invocations compared
Invocations == {1, 2}

IdleInvocation ==
    [pc |-> "idle", t |-> << 0, 0 >>, selected |-> {}, requested |-> << >>,
     attempts |-> 0, fetched |-> {}, ok |-> << >>, failed |-> << >>, rows |-> << >>]

NoSampler == [fn |-> "none", seed |-> << >>, total |-> 0, count |-> 0]

\* where an invocation goes when its draw loop is left: fetchRandomRows
\* starts fetching pages, pickUniqueRandomIndices returns Array.from(picked)
AfterDraw(s, i) ==
    IF KeepDrawing(s, i) THEN [i EXCEPT !.pc = "draw"]
    ELSE IF s.fn = "fetchRandomRows" /\ PagesLeft(i) # {}
    THEN [i EXCEPT !.pc = "pages"]
    ELSE [i EXCEPT !.pc = "done"]

\* an invocation begins: the generator is created and the loop is reached
SamplerCall(p) ==
    /\ smp.fn # "none"
    /\ inv[p].pc = "idle"
    /\ inv' = [inv EXCEPT ![p] =
                 AfterDraw(smp, [IdleInvocation EXCEPT
                     !.t = IF UsesMathRandom(smp.seed) THEN << 0, 0 >>
                           ELSE NormalizeSeed(smp.seed)])]
    /\ UNCHANGED << smp, notSampler >>

\* the values of Math.floor(Math.random() * range) explored: all of them
\* for a small range, else the first two rows, the first row of the second
\* page and the last row
DrawCandidates(range) ==
    IF range <= PAGE_LENGTH THEN 0..(range - 1)
    ELSE {0, 1, PAGE_LENGTH, range - 1}

\* one pass of the draw loop.  pickUniqueRandomIndices has no cap of its
\* own: its draws are explored up to MaxDraws.
Draw(p) ==
    /\ inv[p].pc = "draw"
    /\ smp.fn = "pickUniqueRandomIndices" => inv[p].attempts < MaxDraws
    /\ \E offset \in 0..(SamplerRange(smp) - 1) :
         LET t == MulberryStep(inv[p].t)
         IN /\ IF UsesMathRandom(smp.seed)
               THEN offset \in DrawCandidates(SamplerRange(smp))
               ELSE offset = ScaleToIndex(MulberryOut(t), SamplerRange(smp))
            /\ inv' = [inv EXCEPT ![p] =
                 AfterDraw(smp, [inv[p] EXCEPT
                     !.t = IF UsesMathRandom(smp.seed) THEN @ ELSE t,
                     !.attempts = @ + 1,
                     !.selected = @ \cup {offset},
                     !.requested = IF offset \in inv[p].selected THEN @
                                   ELSE Append(@, offset)])]
    /\ UNCHANGED << smp, notSampler >>

\* pageRows[absoluteOffset - pageStart] of the page the offset falls into,
\* a row being written as the offset the server holds it at
PageRow(absoluteOffset) ==
    PageStart(absoluteOffset) + (absoluteOffset - PageStart(absoluteOffset))

\* variant: the catch block records nothing
PageThrewDropsOffsets(i, offsets) == i

\* the catch block of the page loop: failedOffsets.push(...offsetsInPage)
PageThrew(i, offsets) == [i EXCEPT !.failed = @ \o offsets]

\* the rows of a fetched page that go to the result: the offsets of the
\* page, in their order, while rows.length < wanted
RECURSIVE TakeRows(_, _, _, _)
TakeRows(i, offsets, present, wanted) ==
    IF offsets = << >> \/ Len(i.ok) >= wanted THEN i
    ELSE IF Head(offsets) \in present
    THEN TakeRows([i EXCEPT !.ok = Append(@, Head(offsets)),
                            !.rows = Append(@, PageRow(Head(offsets)))],
                  Tail(offsets), present, wanted)
    ELSE TakeRows([i EXCEPT !.failed = Append(@, Head(offsets))],
                  Tail(offsets), present, wanted)

\* fetchDatasetRows for the next page settles: it throws, or it returns a
\* page in which the rows `present` exist; then the loop goes on unless
\* rows.length >= wanted
PageFetched(p) ==
    /\ inv[p].pc = "pages"
    /\ LET pageStart == Least(PagesLeft(inv[p]))
           offsets == OffsetsInPage(inv[p].requested, pageStart)
           i == [inv[p] EXCEPT !.fetched = @ \cup {pageStart}]
       IN \E threw \in BOOLEAN :
          \E present \in SUBSET { offsets[k] : k \in DOMAIN offsets } :
            /\ threw => present = {}
            /\ LET j == IF threw THEN PageThrew(i, offsets)
                        ELSE TakeRows(i, offsets, present, SamplerWanted(smp))
               IN inv' = [inv EXCEPT ![p] =
                     IF PagesLeft(j) = {} \/ Len(j.ok) >= SamplerWanted(smp)
                     THEN [j EXCEPT !.pc = "done"]
                     ELSE j]
    /\ UNCHANGED << smp, notSampler >>

\* ----------------------------------------------------------- fetchJson
\* the HTTP statuses a request is answered with; a fetch that rejects
\* (network error) is written as status FETCH_REJECTED
FETCH_REJECTED == 0
Statuses == {200, 404, 429, 500}

\* variant: every status below 500 counts as ok
ResponseOkLoose(status) == status >= 200 /\ status <= 499

\* response.ok
ResponseOk(status) == status >= 200 /\ status <= 299

\* shouldRetry
ShouldRetry(status) == status >= 500 \/ status = 429

IdleFetch ==
    [pc |-> "idle", retries |-> 0, attempt |-> 0, lastError |-> << >>,
     log |-> << >>, thrown |-> << >>]

\* fetchJson(url, {retries}) is called: the loop starts with attempt 0
FetchJsonCall(retries) ==
    /\ fj.pc = "idle"
    /\ fj' = [IdleFetch EXCEPT !.pc = "request", !.retries = retries]
    /\ UNCHANGED notFetch

\* the loop condition: attempt <= retries
LoopGoesOn(f) == f.attempt <= f.retries

\* the catch block: lastError = error; break (and throw lastError) when
\* attempt >= retries, else sleep and go round again
FetchCatch(f, kind) ==
    LET error == [kind |-> kind, attempt |-> f.attempt]
    IN IF f.attempt >= f.retries
       THEN [f EXCEPT !.lastError = << error >>, !.thrown = << error >>, !.pc = "failed"]
       ELSE [f EXCEPT !.lastError = << error >>, !.pc = "sleep"]

\* the request of this attempt settles: fetch rejects, or it resolves with a
\* response whose body can be read (response.text(), response.json()
\* resolve) or not; the body of the try block and the catch block run.  The
\* promise of response.json() is returned without await: its rejection is
\* not caught.
RequestSettles(status, readable) ==
    /\ fj.pc = "request"
    /\ status = FETCH_REJECTED => readable
    /\ LET f == [fj EXCEPT !.log = Append(@, status)]
       IN fj' = IF status = FETCH_REJECTED THEN FetchCatch(f, "network")
                ELSE IF ResponseOk(status)
                THEN IF readable THEN [f EXCEPT !.pc = "returned"]
                     ELSE [f EXCEPT !.pc = "failed",
                               !.thrown = << [kind |-> "parse", attempt |-> f.attempt] >>]
                ELSE IF ~readable THEN FetchCatch(f, "text")
                ELSE IF ShouldRetry(status) /\ f.attempt < f.retries
                THEN [f EXCEPT !.pc = "sleep"]
                ELSE FetchCatch(f, "http")
    /\ UNCHANGED notFetch

\* the sleep before the next attempt ends: attempt += 1 and the loop
\* condition; after the loop, throw lastError || new Error('Request failed')
BackoffDone ==
    /\ fj.pc = "sleep"
    /\ LET f == [fj EXCEPT !.attempt = @ + 1]
       IN fj' = IF LoopGoesOn(f) THEN [f EXCEPT !.pc = "request"]
                ELSE [f EXCEPT !.pc = "failed",
                          !.thrown = IF f.lastError = << >>
                                     THEN << [kind |-> "generic", attempt |-> f.attempt] >>
                                     ELSE f.lastError]
    /\ UNCHANGED notFetch

\* ---------------------------------------------------- readThroughCache
\* what a fetcher resolves with: two JSON objects, and "null" for a JSON
\* value that is falsy in JavaScript (null, 0, false, "")
FalsyData == "null"
Payloads == {"A", "B", FalsyData}

IdleCall ==
    [pc |-> "idle", forceRefresh |-> FALSE, ttlMs |-> 0, cached |-> << >>,
     at |-> 0, calls |-> 0, result |-> << >>]

\* variant: fresh only when strictly younger than the ttl
IsFreshStrict(entry, ttlMs, now) == entry # << >> /\ (now - entry[1].savedAt) < ttlMs

\* isFresh(entry, ttlMs): !!entry && (Date.now() - entry.savedAt) <= ttlMs
IsFresh(entry, ttlMs, now) == entry # << >> /\ (now - entry[1].savedAt) <= ttlMs

\* variant: any cached entry is served on failure
HasCachedDataAnyEntry(cached) == cached # << >>

\* cached?.data, as a condition
HasCachedData(cached) == cached # << >> /\ cached[1].data # FalsyData

\* time passes
CacheTick ==
    /\ cacheNow < MaxCacheTime
    /\ cacheNow' = cacheNow + 1
    /\ UNCHANGED << cacheEntry, rtc, notCache >>

\* clearLocalStorageByPrefix removes the entry
ClearLocalStorage ==
    /\ cacheEntry # << >>
    /\ cacheEntry' = << >>
    /\ UNCHANGED << cacheNow, rtc, notCache >>

\* readThroughCache is called: the entry is read, and either returned at
\* once or the fetcher is called
ReadThroughCacheCall(forceRefresh, ttlMs) ==
    /\ rtc.pc \in {"idle", "returned", "threw"}
    /\ LET call == [IdleCall EXCEPT !.forceRefresh = forceRefresh, !.ttlMs = ttlMs,
                        !.cached = cacheEntry, !.at = cacheNow]
       IN rtc' = IF ~forceRefresh /\ IsFresh(cacheEntry, ttlMs, cacheNow)
                 THEN [call EXCEPT !.pc = "returned",
                           !.result = << [data |-> cacheEntry[1].data,
                                          fromCache |-> TRUE, stale |-> FALSE] >>]
                 ELSE [call EXCEPT !.pc = "fetching", !.calls = 1]
    /\ UNCHANGED << cacheEntry, cacheNow, notCache >>

\* the fetcher resolves: writeCacheEntry stores {savedAt: Date.now(), data}
\* unless localStorage.setItem throws, which is ignored
FetcherResolves(data, stored) ==
    /\ rtc.pc = "fetching"
    /\ cacheEntry' = IF stored THEN << [savedAt |-> cacheNow, data |-> data] >>
                     ELSE cacheEntry
    /\ rtc' = [rtc EXCEPT !.pc = "returned",
                   !.result = << [data |-> data, fromCache |-> FALSE, stale |-> FALSE] >>]
    /\ UNCHANGED << cacheNow, notCache >>

\* the fetcher rejects: the entry read at the call is served if it has data
FetcherRejects ==
    /\ rtc.pc = "fetching"
    /\ rtc' = IF HasCachedData(rtc.cached)
              THEN [rtc EXCEPT !.pc = "returned",
                        !.result = << [data |-> rtc.cached[1].data,
                                       fromCache |-> TRUE, stale |-> TRUE] >>]
              ELSE [rtc EXCEPT !.pc = "threw"]
    /\ UNCHANGED << cacheEntry, cacheNow, notCache >>

\* ------------------------------------------------------- pure functions
\* no call of a pure function
NoCalc == [fn |-> "none"]

\* the strings over an alphabet, up to a length
RECURSIVE StringsUpTo(_, _)
StringsUpTo(alphabet, n) ==
    IF n = 0 THEN { << >> }
    ELSE LET shorter == StringsUpTo(alphabet, n - 1)
         IN shorter \cup { Append(t, c) : t \in shorter, c \in alphabet }

\* ----------------------------------------------------------------- toCsv
\* the characters of field values: a letter, and the three that csvEscape
\* looks for
CsvChars == {"a", ",", "\"", "\n"}

\* a cell of a row: null / undefined, or a string
NullCell == [isNull |-> TRUE, text |-> << >>]
CsvCells == {NullCell} \cup { [isNull |-> FALSE, text |-> t] : t \in StringsUpTo(CsvChars, MaxFieldLen) }

\* the shapes of the tables explored: << rows, columns >>
TableShapes == { << 0, 1 >>, << 1, 1 >>, << 1, 2 >>, << 2, 1 >> }
ColumnNames == << << "a" >>, << "b" >> >>

\* text.replace(/"/g, '""')
RECURSIVE DoubleQuotes(_)
DoubleQuotes(text) ==
    IF text = << >> THEN << >>
    ELSE (IF Head(text) = "\"" THEN << "\"", "\"" >> ELSE << Head(text) >>)
         \o DoubleQuotes(Tail(text))

\* variant: the quotes inside a quoted field are left single
CsvEscapeNoDoubling(cell) ==
    IF cell.isNull THEN << >>
    ELSE IF \E k \in DOMAIN cell.text : cell.text[k] \in {"\"", ",", "\n"}
    THEN << "\"" >> \o cell.text \o << "\"" >>
    ELSE cell.text

\* csvEscape(value)
CsvEscape(cell) ==
    IF cell.isNull THEN << >>
    ELSE IF \E k \in DOMAIN cell.text : cell.text[k] \in {"\"", ",", "\n"}
    THEN << "\"" >> \o DoubleQuotes(cell.text) \o << "\"" >>
    ELSE cell.text

\* parts.join(sep)
RECURSIVE Join(_, _)
Join(parts, sep) ==
    IF parts = << >> THEN << >>
    ELSE IF Len(parts) = 1 THEN parts[1]
    ELSE parts[1] \o << sep >> \o Join(Tail(parts), sep)

\* toCsv(rows, columns): a row is the sequence of its cells in column order
ToCsv(rows, columns) ==
    LET header == Join(columns, ",")
        lines == [r \in DOMAIN rows |->
                    Join([c \in DOMAIN rows[r] |-> CsvEscape(rows[r][c])], ",")]
    IN Join(<< header >> \o lines, "\n")

\* toCsv is called and returns
ToCsvReturns ==
    /\ calc.fn = "toCsv"
    /\ calc.pc = "called"
    /\ calc' = [calc EXCEPT !.pc = "returned", !.text = ToCsv(calc.rows, calc.columns)]
    /\ UNCHANGED notCalc

\* ------------------------------------------------------------ numbers
\* The numbers of the statistics are rationals << numerator, denominator >>
\* in lowest terms with a positive denominator: for the integer inputs
\* explored, the tests === 0 of the code are exact, as they are in doubles.
Abs(x) == IF x < 0 THEN -x ELSE x

RECURSIVE Gcd(_, _)
Gcd(a, b) == IF b = 0 THEN a ELSE Gcd(b, a % b)

Rat(p, q) ==
    LET g == Gcd(Abs(p), Abs(q))
        sign == IF q < 0 THEN -1 ELSE 1
    IN << (sign * p) \div g, (sign * q) \div g >>

RInt(n) == << n, 1 >>
RAdd(x, y) == Rat(x[1] * y[2] + y[1] * x[2], x[2] * y[2])
RSub(x, y) == Rat(x[1] * y[2] - y[1] * x[2], x[2] * y[2])
RMul(x, y) == Rat(x[1] * y[1], x[2] * y[2])
RDiv(x, y) == Rat(x[1] * y[2], x[2] * y[1])
RZero == << 0, 1 >>

\* values.reduce((s, v) => s + f(v), 0), for the terms f(v) in order
RECURSIVE RSum(_)
RSum(terms) == IF terms = << >> THEN RZero ELSE RAdd(Head(terms), RSum(Tail(terms)))

\* ------------------------------------------------------------ linearFit
DegenerateFit == [a |-> RZero, b |-> RZero, r2 |-> RZero]

\* linearFit(xArr, yArr)
LinearFit(xArr, yArr) ==
    LET n == Len(xArr)
        X == [i \in 1..n |-> RInt(xArr[i])]
        Y == [i \in 1..n |-> RInt(yArr[i])]
        mx == RDiv(RSum(X), RInt(n))
        my == RDiv(RSum(Y), RInt(n))
        num == RSum([i \in 1..n |-> RMul(RSub(X[i], mx), RSub(Y[i], my))])
        den == RSum([i \in 1..n |-> RMul(RSub(X[i], mx), RSub(X[i], mx))])
        a == IF den = RZero THEN RZero ELSE RDiv(num, den)
        b == RSub(my, RMul(a, mx))
        res(i) == RSub(Y[i], RAdd(RMul(a, X[i]), b))
        ssRes == RSum([i \in 1..n |-> RMul(res(i), res(i))])
        ssTot == RSum([i \in 1..n |-> RMul(RSub(Y[i], my), RSub(Y[i], my))])
        r2 == IF ssTot = RZero THEN RZero ELSE RSub(RInt(1), RDiv(ssRes, ssTot))
    IN IF n < 2 THEN DegenerateFit ELSE [a |-> a, b |-> b, r2 |-> r2]

\* linearFit is called and returns
LinearFitReturns ==
    /\ calc.fn = "linearFit"
    /\ calc.pc = "called"
    /\ calc' = [calc EXCEPT !.pc = "returned", !.fit = LinearFit(calc.xArr, calc.yArr)]
    /\ UNCHANGED notCalc

\* ----------------------------------------------------------- statistics
\* A result that may be null is << >> (null) or << number >>.

\* [...values].sort((a, b) => a - b): at place k stands the value with
\* fewer than k values below it and at least k values not above it
SortAscending(values) ==
    [k \in DOMAIN values |->
        CHOOSE v \in { values[i] : i \in DOMAIN values } :
            /\ Cardinality({ i \in DOMAIN values : values[i] < v }) < k
            /\ k <= Cardinality({ i \in DOMAIN values : values[i] <= v })]

\* mean(values)
Mean(values) ==
    IF Len(values) = 0 THEN << >>
    ELSE << RDiv(RSum([i \in DOMAIN values |-> RInt(values[i])]), RInt(Len(values))) >>

\* median(values)
Median(values) ==
    IF Len(values) = 0 THEN << >>
    ELSE LET sorted == SortAscending(values)
             mid == Len(sorted) \div 2
         IN IF Len(sorted) % 2 = 1 THEN << RInt(sorted[mid + 1]) >>
            ELSE << RDiv(RInt(sorted[mid] + sorted[mid + 1]), RInt(2)) >>

\* stddev(values): the number returned is written as its square (the
\* variance under Math.sqrt; 0 for the literal 0)
Stddev(values) ==
    IF Len(values) < 2 THEN << RZero >>
    ELSE LET avg == Mean(values)[1]
             squares == [i \in DOMAIN values |->
                           RMul(RSub(RInt(values[i]), avg), RSub(RInt(values[i]), avg))]
         IN << RDiv(RSum(squares), RInt(Len(values) - 1)) >>

\* Math.ceil(p / 100 * n)
CeilHundredth(p, n) == -((-(p * n)) \div 100)

\* variant: Math.floor(p / 100 * n), clamped, as the index
NearestRankIndexFloor(p, n) == Min(n - 1, Max(0, (p * n) \div 100))

\* the index of percentile: Math.min(n - 1, Math.max(0, Math.ceil(...) - 1))
NearestRankIndex(p, n) == Min(n - 1, Max(0, CeilHundredth(p, n) - 1))

\* percentile(values, p): the array handed in as it is after the call, and
\* the result
Percentile(values, p) ==
    IF Len(values) = 0 THEN [values |-> values, result |-> << >>]
    ELSE LET sorted == SortAscending(values)
         IN [values |-> values,
             result |-> << RInt(sorted[NearestRankIndex(p, Len(sorted)) + 1]) >>]

\* the ranks asked for
PercentileRanks == {-10, 0, 1, 50, 90, 99, 100, 150}

\* the numbers 1..100 in ascending order
OneToHundred == [i \in 1..100 |-> i]

MeanReturns ==
    /\ calc.fn = "mean" /\ calc.pc = "called"
    /\ calc' = [calc EXCEPT !.pc = "returned", !.result = Mean(calc.values)]
    /\ UNCHANGED notCalc

MedianReturns ==
    /\ calc.fn = "median" /\ calc.pc = "called"
    /\ calc' = [calc EXCEPT !.pc = "returned", !.result = Median(calc.values)]
    /\ UNCHANGED notCalc

StddevReturns ==
    /\ calc.fn = "stddev" /\ calc.pc = "called"
    /\ calc' = [calc EXCEPT !.pc = "returned", !.result = Stddev(calc.values)]
    /\ UNCHANGED notCalc

PercentileReturns ==
    /\ calc.fn = "percentile" /\ calc.pc = "called"
    /\ calc' = [calc EXCEPT !.pc = "returned",
                    !.values = Percentile(calc.values, calc.p).values,
                    !.result = Percentile(calc.values, calc.p).result]
    /\ UNCHANGED notCalc

\* -------------------------------------------------------- textSimilarity
\* the characters of the texts: lower-case letters, an upper-case letter,
\* a punctuation mark and a blank
TextChars == {"a", "b", "B", "!", " "}

\* toLowerCase, for one character
LowerChar(c) == IF c = "B" THEN "b" ELSE c

\* .replace(/[^a-z0-9\s]/g, ' '), for one character
KeepChar(c) == IF c \in {"a", "b", " "} THEN c ELSE " "

\* .replace(/\s+/g, ' '): every run of blanks becomes one blank
RECURSIVE CollapseBlanks(_)
CollapseBlanks(text) ==
    IF Len(text) < 2 THEN text
    ELSE IF text[1] = " " /\ text[2] = " " THEN CollapseBlanks(Tail(text))
    ELSE << text[1] >> \o CollapseBlanks(Tail(text))

\* .trim()
RECURSIVE Trim(_)
Trim(text) ==
    IF text = << >> THEN text
    ELSE IF Head(text) = " " THEN Trim(Tail(text))
    ELSE IF text[Len(text)] = " " THEN Trim(SubSeq(text, 1, Len(text) - 1))
    ELSE text

\* normalizeText(value)
NormalizeText(value) ==
    Trim(CollapseBlanks([k \in DOMAIN value |-> KeepChar(LowerChar(value[k]))]))

\* the inner loop of levenshteinDistance: the row curr, of which the entries
\* 0..Len(curr)-1 are there, for the character ch of left
RECURSIVE LevenshteinRow(_, _, _, _)
LevenshteinRow(prev, ch, right, curr) ==
    IF Len(curr) = Len(right) + 1 THEN curr
    ELSE LET j == Len(curr)
             cost == IF ch = right[j] THEN 0 ELSE 1
         IN LevenshteinRow(prev, ch, right,
                Append(curr, Min(Min(prev[j + 1] + 1, curr[j] + 1), prev[j] + cost)))

\* the outer loop of levenshteinDistance, from row i on: prev after the
\* last row
RECURSIVE LevenshteinRows(_, _, _, _)
LevenshteinRows(prev, left, i, right) ==
    IF i > Len(left) THEN prev
    ELSE LevenshteinRows(LevenshteinRow(prev, left[i], right, << i >>), left, i + 1, right)

\* levenshteinDistance(a, b)
LevenshteinDistance(a, b) ==
    IF a = b THEN 0
    ELSE IF Len(a) = 0 THEN Len(b)
    ELSE IF Len(b) = 0 THEN Len(a)
    ELSE LevenshteinRows([j \in 1..(Len(b) + 1) |-> j - 1], a, 1, b)[Len(b) + 1]

\* variant: the second text is compared as it is
TextSimilarityRawRight(a, b) ==
    LET left == NormalizeText(a)
        maxLen == Max(Len(left), Len(b))
    IN IF maxLen = 0 THEN RInt(1)
       ELSE RSub(RInt(1), RDiv(RInt(LevenshteinDistance(left, b)), RInt(maxLen)))

\* textSimilarity(a, b)
TextSimilarity(a, b) ==
    LET left == NormalizeText(a)
        right == NormalizeText(b)
        maxLen == Max(Len(left), Len(right))
    IN IF maxLen = 0 THEN RInt(1)
       ELSE RSub(RInt(1), RDiv(RInt(LevenshteinDistance(left, right)), RInt(maxLen)))

\* textSimilarity is called and returns
TextSimilarityReturns ==
    /\ calc.fn = "textSimilarity"
    /\ calc.pc = "called"
    /\ calc' = [calc EXCEPT !.pc = "returned", !.result = TextSimilarity(calc.a, calc.b)]
    /\ UNCHANGED notCalc

\* ------------------------------------------------------------ histogram
\* the bin widths explored
BinWidths == {1, 2, 5}

\* Math.floor(v / binWidth) * binWidth and Math.ceil(v / binWidth) * binWidth
\* for a whole number v
FloorToBin(v, binWidth) == (v \div binWidth) * binWidth
CeilToBin(v, binWidth) == ((v + binWidth - 1) \div binWidth) * binWidth

\* the largest and the smallest of a non-empty sequence of numbers
MaxOf(values) == CHOOSE x \in { values[k] : k \in DOMAIN values } :
                    \A k \in DOMAIN values : values[k] <= x
MinOf(values) == CHOOSE x \in { values[k] : k \in DOMAIN values } :
                    \A k \in DOMAIN values : x <= values[k]

\* the loop `for (let lo = min; lo < max; lo += binWidth)`: a bin per pass,
\* with its label (lo and lo + binWidth) and the number of values v with
\* lo <= v < lo + binWidth
RECURSIVE HistogramBins(_, _, _, _)
HistogramBins(lo, max, binWidth, values) ==
    IF lo < max
    THEN << [lo |-> lo, hi |-> lo + binWidth,
             count |-> Len(SelectSeq(values, LAMBDA v : v >= lo /\ v < lo + binWidth))] >>
         \o HistogramBins(lo + binWidth, max, binWidth, values)
    ELSE << >>

\* histogram(values, binWidth)
Histogram(values, binWidth) ==
    IF Len(values) = 0 THEN << >>
    ELSE HistogramBins(FloorToBin(MinOf(values), binWidth),
                       CeilToBin(MaxOf(values), binWidth), binWidth, values)

\* histogram is called and returns
HistogramReturns ==
    /\ calc.fn = "histogram"
    /\ calc.pc = "called"
    /\ calc' = [calc EXCEPT !.pc = "returned",
                            !.bins = Histogram(calc.values, calc.binWidth)]
    /\ UNCHANGED notCalc

\* ------------------------------------------------- trials of a batch
\* The sample loop of runBenchmark with the texts the model returns: the
\* model stays loaded, and what decodeAudio and transcribe do is open.
\* the texts a transcription returns (utterance_text), "" when it is absent
TrialTexts == { << "a" >>, << "a", "!" >>, << "b" >>, << >> }

\* the numbers of prepared samples explored
TrialSamples == {1, 2}

NoTrials == [pc |-> "idle"]

\* the row_idx values of the rows a page of the dataset server holds
RowIdxValues == {0, 1}

\* the row wrappers prepareSampleRows collects (rawRows): each with the
\* row_idx of the server or without one, no row_idx given twice
RawRowLists ==
    { raw \in UNION { [1..n -> { << >> } \cup { << v >> : v \in RowIdxValues }] :
                        n \in TrialSamples } :
        \A i, j \in DOMAIN raw : (i # j /\ raw[i] # << >>) => raw[i] # raw[j] }

\* normalizeDatasetRow: rowIndex = rowWrapper?.row_idx ?? fallbackIndex
NormalizeDatasetRow(rowIdx, fallbackIndex) ==
    [rowIndex |-> IF rowIdx = << >> THEN fallbackIndex ELSE rowIdx[1]]

\* rawRows.map((item, idx) => normalizeDatasetRow(item, idx)), idx from 0
PreparedFrom(raw) == [i \in DOMAIN raw |-> NormalizeDatasetRow(raw[i], i - 1)]

\* the id of a Run: `${batchId}-${sampleKey}-...` with sampleKey =
\* `${datasetSplit}:${sample.rowIndex}`; batchId and datasetSplit are the
\* same for all Runs of a batch
RunId(t, suffix) == << t.samples[t.s].rowIndex, suffix >>

\* the Run pushed when decodeAudio throws
TrialDecodeErrorRun(t) ==
    [id |-> RunId(t, << "decode-error" >>),
     sample |-> t.s, repeatIndex |-> 0, error |-> "decode", transcription |-> << >>,
     exactMatchToFirst |-> << >>, similarityToFirst |-> << >>]

\* the Run pushed when a measured transcribe throws
TrialErrorRun(t) ==
    [id |-> RunId(t, << "run", t.r, "error" >>),
     sample |-> t.s, repeatIndex |-> t.r, error |-> "transcribe", transcription |-> << >>,
     exactMatchToFirst |-> << >>, similarityToFirst |-> << >>]

\* variant: only the first trial sets the baseline
BaselineAfterFirstTrialOnly(baseline, r, normalized) ==
    IF r = 1 THEN << normalized >> ELSE baseline

\* if (baseline === null) baseline = normalized
BaselineAfter(baseline, r, normalized) ==
    IF baseline = << >> THEN << normalized >> ELSE baseline

\* the Run pushed when a measured transcribe returns text, with the
\* baseline as it is after line 3096; textSimilarity(null, x) reads null as ''
TrialSuccessRun(t, text, baseline) ==
    LET normalized == NormalizeText(text)
    IN [id |-> RunId(t, << "run", t.r >>),
        sample |-> t.s, repeatIndex |-> t.r, error |-> "none", transcription |-> text,
        exactMatchToFirst |-> << baseline = << normalized >> >>,
        similarityToFirst |->
            << TextSimilarity(IF baseline = << >> THEN << >> ELSE baseline[1], normalized) >>]

\* head of the sample loop
TrialSampleTop(t) ==
    IF t.s > t.n \/ t.stop THEN [t EXCEPT !.pc = "done"]
    ELSE [t EXCEPT !.pc = "decode"]

\* head of the measured loop
TrialMeasTop(t) ==
    IF t.r > t.rc \/ t.stop THEN TrialSampleTop([t EXCEPT !.s = @ + 1])
    ELSE [t EXCEPT !.pc = "meas", !.calls = Append(@, << t.s, "measured" >>)]

\* head of the warm-up loop; after it, let baseline = null and r = 1
TrialWarmTop(t) ==
    IF t.w >= t.wu \/ t.stop
    THEN TrialMeasTop([t EXCEPT !.baseline = << >>, !.r = 1])
    ELSE [t EXCEPT !.pc = "warm", !.calls = Append(@, << t.s, "warmup" >>)]

\* decodeAudio settles for sample s
TrialDecodeDone(ok) ==
    /\ trials.pc = "decode"
    /\ trials' = IF ok
                 THEN TrialWarmTop([trials EXCEPT !.w = 0, !.decoded = @ \cup {trials.s}])
                 ELSE TrialSampleTop([trials EXCEPT
                          !.out = Append(@, TrialDecodeErrorRun(trials)), !.s = @ + 1])
    /\ UNCHANGED notTrials

\* a warm-up transcribe settles: its result is dropped; its error reaches
\* the catch of runBenchmark
TrialWarmDone(ok) ==
    /\ trials.pc = "warm"
    /\ trials' = IF ok THEN TrialWarmTop([trials EXCEPT !.w = @ + 1])
                 ELSE [trials EXCEPT !.pc = "failed"]
    /\ UNCHANGED notTrials

\* a measured transcribe returns text
TrialMeasReturns(text) ==
    /\ trials.pc = "meas"
    /\ LET baseline == BaselineAfter(trials.baseline, trials.r, NormalizeText(text))
       IN trials' = TrialMeasTop([trials EXCEPT
                        !.baseline = baseline,
                        !.out = Append(@, TrialSuccessRun(trials, text, baseline)),
                        !.r = @ + 1])
    /\ UNCHANGED notTrials

\* a measured transcribe throws
TrialMeasThrows ==
    /\ trials.pc = "meas"
    /\ trials' = TrialMeasTop([trials EXCEPT
                     !.out = Append(@, TrialErrorRun(trials)), !.r = @ + 1])
    /\ UNCHANGED notTrials

\* click on "Stop" while the batch runs
TrialStop ==
    /\ trials.pc \in {"decode", "warm", "meas"}
    /\ ~trials.stop
    /\ trials' = [trials EXCEPT !.stop = TRUE]
    /\ UNCHANGED notTrials

\* -------------------------------------------------- fetchSequentialRows
IdleSeq == [pc |-> "idle"]

\* the startOffset arguments explored
StartOffsets == {-1, 0, 7}

\* the limit arguments explored: none, one row, around one page, two pages
\* and the largest
SeqLimits == {0, 1, PAGE_LENGTH - 1, PAGE_LENGTH, PAGE_LENGTH + 1, 2 * PAGE_LENGTH, MaxLimit}

\* the numbers of rows the server answers a request of `length` rows with
PageSizes(length) == {0, 1, length - 1, length} \cap 0..length

\* variant: every page is requested in full
SeqPageLengthFull(limit, have) == PAGE_LENGTH

\* const pageLength = Math.min(100, limit - rows.length)
SeqPageLength(limit, have) == Min(PAGE_LENGTH, limit - have)

\* head of the while loop: request the next page or return
SeqLoopTop(q) ==
    IF Len(q.rows) < q.limit
    THEN [q EXCEPT !.pc = "fetch",
                   !.requests = Append(@, [offset |-> q.cursor,
                                           length |-> SeqPageLength(q.limit, Len(q.rows))])]
    ELSE [q EXCEPT !.pc = "returned"]

\* fetchSequentialRows is called, up to the first await; a row is written
\* as the offset it was served for
FetchSequentialRowsCall(startOffset, limit) ==
    /\ seq.pc = "idle"
    /\ seq' = SeqLoopTop([pc |-> "idle", startOffset |-> startOffset, limit |-> limit,
                          cursor |-> Max(0, startOffset), rows |-> << >>,
                          requests |-> << >>, pages |-> << >>])
    /\ UNCHANGED notSeq

\* fetchDatasetRows resolves with a page of k rows
SeqPageArrives(k) ==
    /\ seq.pc = "fetch"
    /\ LET pageLength == seq.requests[Len(seq.requests)].length
           got == [seq EXCEPT !.pages = Append(@, k),
                              !.rows = @ \o [i \in 1..k |-> seq.cursor + i - 1],
                              !.cursor = @ + k]
       IN /\ k \in PageSizes(pageLength)
          /\ seq' = IF k = 0 THEN [seq EXCEPT !.pc = "returned", !.pages = Append(@, k)]
                    ELSE IF k < pageLength THEN [got EXCEPT !.pc = "returned"]
                    ELSE SeqLoopTop(got)
    /\ UNCHANGED notSeq

\* fetchDatasetRows rejects: the error leaves fetchSequentialRows
SeqPageFails ==
    /\ seq.pc = "fetch"
    /\ seq' = [seq EXCEPT !.pc = "thrown"]
    /\ UNCHANGED notSeq

\* ------------------------------------------------------ enqueueRequest
MIN_REQUEST_GAP_MS == 500

\* the concurrent callers of fetchJson
Callers == {1, 2}

\* Date.now() when the module is loaded: later than MIN_REQUEST_GAP_MS
\* after the initial lastRequestAt = 0
QueueClockStart == 2 * MIN_REQUEST_GAP_MS

\* requestQueue is Promise.resolve(): tasks holds, in the order of the
\* enqueueRequest calls, the caller and the state of each `run` promise;
\* order lists the tasks in the order their task() was invoked
IdleQueue ==
    [tasks |-> << >>, lastRequestAt |-> 0, now |-> QueueClockStart, order |-> << >>]

\* variant: the callback does not wait for the promise it is chained to
ChainSettledAlways(i) == TRUE

\* requestQueue.catch(() => {}).then(...): the callback of task i runs once
\* the promise requestQueue held when it was enqueued has settled, which is
\* run.catch(() => {}) of task i - 1
ChainSettled(i) ==
    IF i = 1 THEN TRUE ELSE rq.tasks[i - 1].st \in {"resolved", "rejected"}

\* enqueueRequest(task), called by fetchJson
EnqueueRequest(caller) ==
    /\ Len(rq.tasks) < MaxTasks
    /\ rq' = [rq EXCEPT !.tasks = Append(@, [caller |-> caller, st |-> "queued"])]
    /\ UNCHANGED notQueue

\* the callback of task i begins: it sleeps for the rest of the gap, or it
\* invokes task() at once
QueueTaskBegins(i) ==
    /\ i \in DOMAIN rq.tasks
    /\ rq.tasks[i].st = "queued"
    /\ ChainSettled(i)
    /\ rq' = IF rq.now - rq.lastRequestAt < MIN_REQUEST_GAP_MS
             THEN [rq EXCEPT !.tasks[i].st = "sleeping"]
             ELSE [rq EXCEPT !.tasks[i].st = "running", !.order = Append(@, i)]
    /\ UNCHANGED notQueue

\* the timer of sleep(MIN_REQUEST_GAP_MS - elapsed) fires; task() is invoked
QueueSleepEnds(i) ==
    /\ i \in DOMAIN rq.tasks
    /\ rq.tasks[i].st = "sleeping"
    /\ rq' = [rq EXCEPT !.tasks[i].st = "running", !.order = Append(@, i),
                        !.now = Max(@, rq.lastRequestAt + MIN_REQUEST_GAP_MS)]
    /\ UNCHANGED notQueue

\* task() settles after ms milliseconds: lastRequestAt = Date.now() when it
\* resolved; a rejection rejects `run` and leaves lastRequestAt
QueueTaskSettles(i, ok, ms) ==
    /\ i \in DOMAIN rq.tasks
    /\ rq.tasks[i].st = "running"
    /\ rq' = [rq EXCEPT !.tasks[i].st = IF ok THEN "resolved" ELSE "rejected",
                        !.now = @ + ms,
                        !.lastRequestAt = IF ok THEN rq.now + ms ELSE @]
    /\ UNCHANGED notQueue

\* ------------------------------------------- releaseModelResources
\* the sessions releaseModelResources looks at
Sessions == {"encoderSession", "joinerSession", "preprocessor"}

\* the sessions a model holds: none, the two of the transducer, or all
SessionSets == { {}, {"encoderSession", "joinerSession"}, Sessions }

\* releaseQueueRef.current is Promise.resolve(): tasks holds the release
\* tasks in the order of the queueModelRelease calls, each with the sessions
\* whose release() is pending, resolved or threw; returned lists, per call
\* of queueModelRelease, the task whose promise it returned (0: the
\* resolved promise the queue started as)
IdleRelease == [tasks |-> << >>, returned |-> << >>]

\* variant: the task is chained without .catch, and a release that throws
\* rejects its task
ReleaseChainSettledUnlessThrown(i) ==
    IF i = 1 THEN TRUE
    ELSE rel.tasks[i - 1].st = "settled" /\ rel.tasks[i - 1].threw = {}

\* releaseQueueRef.current.catch(() => { }).then(...): the callback of task
\* i runs once the promise the queue held before has settled
ReleaseChainSettled(i) ==
    IF i = 1 THEN TRUE ELSE rel.tasks[i - 1].st = "settled"

\* queueModelRelease(model) for a model with the sessions given
QueueModelReleaseCall(sessions) ==
    /\ Len(rel.tasks) < MaxModels
    /\ rel' = [rel EXCEPT
                 !.tasks = Append(@, [sessions |-> sessions, st |-> "queued",
                                      pending |-> {}, released |-> {}, threw |-> {}]),
                 !.returned = Append(@, Len(rel.tasks) + 1)]
    /\ UNCHANGED notRelease

\* queueModelRelease(null): the promise the queue holds is returned
QueueNullRelease ==
    /\ Len(rel.returned) <= MaxModels
    /\ rel' = [rel EXCEPT !.returned = Append(@, Len(rel.tasks))]
    /\ UNCHANGED notRelease

\* releaseModelResources(model) begins: release() is called on every session
\* the model holds; with none, Promise.all resolves at once
ReleaseTaskBegins(i) ==
    /\ i \in DOMAIN rel.tasks
    /\ rel.tasks[i].st = "queued"
    /\ ReleaseChainSettled(i)
    /\ rel' = [rel EXCEPT !.tasks[i] =
                 [@ EXCEPT !.pending = rel.tasks[i].sessions,
                           !.st = IF rel.tasks[i].sessions = {} THEN "settled"
                                  ELSE "running"]]
    /\ UNCHANGED notRelease

\* session.release() of a session of task i resolves, or it throws or
\* rejects and the catch block swallows the error; when the last one has
\* settled, releaseModelResources returns
SessionReleaseSettles(i, session, ok) ==
    /\ i \in DOMAIN rel.tasks
    /\ rel.tasks[i].st = "running"
    /\ session \in rel.tasks[i].pending
    /\ rel' = [rel EXCEPT !.tasks[i] =
                 [@ EXCEPT !.pending = @ \ {session},
                           !.released = IF ok THEN @ \cup {session} ELSE @,
                           !.threw = IF ok THEN @ ELSE @ \cup {session},
                           !.st = IF rel.tasks[i].pending = {session} THEN "settled"
                                  ELSE "running"]]
    /\ UNCHANGED notRelease

\* ------------------------------------------------ loadModelWithFallback
\* the quantizations a component can be requested with and resolve to
Quants == {"fp16", "fp32", "int8"}

\* options.encoderQuant and options.decoderQuant, and the quantisation a
\* download resolved
QuantPairs == [encoder : Quants, decoder : Quants]

IdleLoader == [pc |-> "idle"]

\* variant: the retry is tried whatever the first download resolved
ShouldRetryWithFp32Always(quantisation) == TRUE

\* shouldRetryWithFp32
ShouldRetryWithFp32(quantisation) ==
    quantisation.encoder = "fp16" \/ quantisation.decoder = "fp16"

\* buildRetryOptions
BuildRetryOptions(options, quantisation) ==
    [encoder |-> IF quantisation.encoder = "fp16" THEN "fp32" ELSE options.encoder,
     decoder |-> IF quantisation.decoder = "fp16" THEN "fp32" ELSE options.decoder]

\* loadModelWithFallback is called, up to the first await getParakeetModelFn;
\* downloads lists the options of the downloads requested, compiles the
\* modelUrls handed to fromUrlsFn
LoadModelWithFallbackCall(options) ==
    /\ ldr.pc = "idle"
    /\ ldr' = [pc |-> "download", options |-> options, downloads |-> << options >>,
               resolved |-> << >>, compiles |-> << >>, firstError |-> << >>,
               returned |-> << >>, thrown |-> << >>]
    /\ UNCHANGED notLoader

\* getParakeetModelFn settles: it resolves modelUrls with a quantisation, or
\* it rejects.  The first rejection leaves the function as it is; the
\* second is wrapped in a new Error.
LoaderDownloadSettles(ok, quantisation) ==
    /\ ldr.pc = "download"
    /\ LET attempt == Len(ldr.downloads)
       IN ldr' = IF ok
                 THEN [ldr EXCEPT !.pc = "compile",
                                  !.resolved = Append(@, quantisation),
                                  !.compiles = Append(@, attempt)]
                 ELSE [ldr EXCEPT !.pc = "thrown",
                                  !.thrown = IF attempt = 1 THEN << "download" >>
                                             ELSE << "retry download failed" >>]
    /\ UNCHANGED notLoader

\* fromUrlsFn settles
LoaderCompileSettles(ok) ==
    /\ ldr.pc = "compile"
    /\ LET attempt == Len(ldr.compiles)
           quantisation == ldr.resolved[1]
           retryOptions == BuildRetryOptions(ldr.options, quantisation)
       IN ldr' = IF ok
                 THEN [ldr EXCEPT !.pc = "returned",
                                  !.returned = << [model |-> attempt,
                                                   retryUsed |-> (attempt = 2)] >>]
                 ELSE IF attempt = 2
                 THEN [ldr EXCEPT !.pc = "thrown", !.thrown = << "retry also failed" >>]
                 ELSE IF ~ShouldRetryWithFp32(quantisation)
                 THEN [ldr EXCEPT !.pc = "thrown", !.firstError = << "compile" >>,
                                  !.thrown = << "compile" >>]
                 ELSE [ldr EXCEPT !.pc = "download", !.firstError = << "compile" >>,
                                  !.downloads = Append(@, retryOptions)]
    /\ UNCHANGED notLoader

\* ------------------------------------------------------ initial values
\* no sampler call, no fetchJson call, an empty cache, no call of a pure
\* function, no batch of trials
SamplerIdle == smp = NoSampler /\ inv = [p \in Invocations |-> IdleInvocation]
FetchIdle == fj = IdleFetch
CacheIdle == cacheEntry = << >> /\ cacheNow = 0 /\ rtc = IdleCall
CalcIdle == calc = NoCalc
TrialsIdle == trials = NoTrials
LoaderIdle == ldr = IdleLoader
SeqIdle == seq = IdleSeq
QueueIdle == rq = IdleQueue
ReleaseIdle == rel = IdleRelease
OthersIdle == LoaderIdle /\ SeqIdle /\ QueueIdle /\ ReleaseIdle

\* the utilities are not in use
UtilInit == SamplerIdle /\ FetchIdle /\ CacheIdle /\ CalcIdle /\ TrialsIdle /\ OthersIdle

\* ----------------------------------------------------- snapshot store
\* In a session of the store a Run of the log carries, besides the fields of
\* the controller's Runs, its object identity (ref), the identity of its
\* metrics object (mref, NullRef when metrics is null) and its
\* transcription, a field that compactRunsForStorage drops.  An object
\* identity names the evaluation of the object literal that created the
\* object: the place in the code, which evaluation of it, which element.
NullRef == << "null", 0, 0 >>

MAX_SNAPSHOTS == 20

\* Date.now() when the session starts: later than any persisted snapshot
ClockStart == MAX_SNAPSHOTS + 1

\* a snapshot that an earlier session saved at time t, as loadSnapshots
\* parses it from localStorage
PersistedSnapshot(t) ==
    [id |-> << "snap", t >>, createdAt |-> t, imported |-> FALSE,
     runs |-> << [ref |-> << "parsed", t, 1 >>, mref |-> << "parsed", t, 2 >>,
                  batch |-> 0, sample |-> 1,
                  repeatIndex |-> 1, error |-> "none", metrics |-> "full"] >>]

\* the list an earlier session left with n snapshots, saved at times 1..n
PersistedList(n) == [i \in 1..n |-> PersistedSnapshot(n + 1 - i)]

\* the store after construction with n persisted snapshots
StoreInit(n) ==
    /\ snapshots = PersistedList(n)
    /\ clock = ClockStart
    /\ adds = 0 /\ deletes = 0

\* the Run that out.push({...}) of batch number `batch` built for its only
\* sample; metrics is the object of the transcribe result
LiveRun(batch, failed) ==
    [ref |-> << "run", batch, 1 >>,
     mref |-> IF failed THEN NullRef ELSE << "result", batch, 1 >>,
     batch |-> batch, sample |-> 1, repeatIndex |-> 1,
     error |-> IF failed THEN "transcribe" ELSE "none",
     metrics |-> IF failed THEN "null" ELSE resultKind,
     transcription |-> IF failed THEN "" ELSE "text"]

\* the element that compactRunsForStorage, called for the n-th snapshot of
\* the session, builds for the i-th Run: a new object with the kept fields
\* and, unless metrics is null, a new metrics object
CompactRun(run, n, i) ==
    [ref |-> << "compact", n, i >>,
     mref |-> IF run.metrics = "null" THEN NullRef ELSE << "compactMetrics", n, i >>,
     batch |-> run.batch, sample |-> run.sample,
     repeatIndex |-> run.repeatIndex, error |-> run.error,
     metrics |-> run.metrics]

\* variant: the snapshot keeps the array of the run log itself
CompactRunsByReference(rs, n) == rs

\* compactRunsForStorage: runs.map(...) builds a new array
CompactRunsForStorage(rs, n) ==
    [i \in 1..Len(rs) |-> CompactRun(rs[i], n, i)]

\* variant: the list is cut after the cap plus one
PrependSnapshotLoose(snapshot, prev) ==
    SubSeq(<< snapshot >> \o prev, 1, Min(Len(prev) + 1, MAX_SNAPSHOTS + 1))

\* [snapshot, ...prev].slice(0, MAX_SNAPSHOTS)
PrependSnapshot(snapshot, prev) ==
    SubSeq(<< snapshot >> \o prev, 1, Min(Len(prev) + 1, MAX_SNAPSHOTS))

\* a millisecond passes
Tick ==
    /\ clock < ClockStart + MaxTicks
    /\ clock' = clock + 1
    /\ UNCHANGED << ctlVarsButRuns, runs, snapshots, adds, deletes >>
    /\ UNCHANGED utilVars

\* a batch of one sample and one repeat ran to its end:
\* setRuns((prev) => [...prev, ...out])
BatchAppend ==
    /\ ~isRunning
    /\ batches < MaxBatches
    /\ batches' = batches + 1
    /\ \E failed \in BOOLEAN :
         runs' = runs \o << LiveRun(batches + 1, failed) >>
    /\ emitted' = emitted + 1
    /\ UNCHANGED << modelRef, nextModel, isModelReady, isLoadingModel, isRunning,
                    stopRef, preparedSamples, repeatCount, warmups,
                    optionsFetch, resultKind, relQueue, load, bench, inflight,
                    started, clears, lastBatch, progress, benchStatus >>
    /\ UNCHANGED << snapshots, clock, adds, deletes >>
    /\ UNCHANGED utilVars

\* click on "Save snapshot" (enabled with a non-empty log and no batch
\* running)
SaveCurrentSnapshot ==
    /\ ~isRunning /\ Len(runs) > 0
    /\ adds < MaxAdds
    /\ adds' = adds + 1
    /\ snapshots' = PrependSnapshot(
            [id |-> << "snap", clock >>, createdAt |-> clock, imported |-> FALSE,
             runs |-> CompactRunsForStorage(runs, adds + 1)], snapshots)
    /\ UNCHANGED << ctlVarsButRuns, runs, clock, deletes >>
    /\ UNCHANGED utilVars

\* reader.onload of importJsonFile for a file with one good Run: JSON.parse
\* builds the objects, the snapshot keeps them as they are; createdAt is data.generatedAt (0: an export made
\* before any snapshot) or, without one, the time of the import
ImportJsonFile ==
    /\ adds < MaxAdds
    /\ adds' = adds + 1
    /\ \E generatedAt \in {0, clock} :
         snapshots' = PrependSnapshot(
            [id |-> << "import", clock >>, createdAt |-> generatedAt,
             imported |-> TRUE,
             runs |-> << [ref |-> << "parsed", clock, adds + 1 >>,
                          mref |-> << "parsedMetrics", clock, adds + 1 >>,
                          batch |-> 0, sample |-> 1, repeatIndex |-> 1,
                          error |-> "none", metrics |-> "full",
                          transcription |-> "text"] >>],
            snapshots)
    /\ UNCHANGED << ctlVarsButRuns, runs, clock, deletes >>
    /\ UNCHANGED utilVars

\* click on the delete button of a listed snapshot
DeleteSnapshot(id) ==
    /\ deletes < MaxDeletes
    /\ deletes' = deletes + 1
    /\ snapshots' = SelectSeq(snapshots, LAMBDA item : item.id # id)
    /\ UNCHANGED << ctlVarsButRuns, runs, clock, adds >>
    /\ UNCHANGED utilVars

\* ------------------------------------------------------- specification
\* the controller after construction, but for the settings
CtlInit ==
    /\ modelRef = 0 /\ nextModel = 0
    /\ isModelReady = FALSE /\ isLoadingModel = FALSE /\ isRunning = FALSE
    /\ stopRef = FALSE
    /\ runs = << >>
    /\ preparedSamples = 0
    /\ optionsFetch = TRUE
    /\ relQueue = << >>
    /\ load = IdleLoad
    /\ bench = IdleBench
    /\ inflight = {} /\ started = {}
    /\ batches = 0 /\ clears = 0 /\ emitted = 0
    /\ lastBatch = NoBatch
    /\ progress = [current |-> 0, total |-> 0]
    /\ benchStatus = "none"

\* the settings a session of the store or of a utility runs with
DefaultSettings ==
    /\ repeatCount = 1
    /\ warmups = 0
    /\ resultKind = "full"

\* the App component as it is mounted, with the default settings
AppIdle == CtlInit /\ DefaultSettings /\ StoreInit(0)

Init ==
    /\ CtlInit
    /\ repeatCount \in 1..MaxRepeat
    /\ warmups \in 0..MaxWarmups
    /\ resultKind \in ResultMetrics
    /\ StoreInit(0)
    /\ UtilInit

Next ==
    \/ \E i \in 1..MaxModels : ReleaseStart(i)
    \/ \E i \in 1..MaxModels : ReleaseDone(i)
    \/ ConfigChange
    \/ QuantOptionsArrive
    \/ LoadModelStart
    \/ LoadAfterRelease
    \/ LoadDownloadDone
    \/ LoadCompileDone
    \/ VerifyDecodeDone
    \/ VerifyCallDone
    \/ LoadFailDone
    \/ RunBenchmarkStart
    \/ PrepareDone
    \/ DecodeDone
    \/ WarmDone
    \/ MeasDone
    \/ StopRun
    \/ ClearRuns
    \/ ClearDatasetCache

Spec == Init /\ [][Next]_vars

\* the controller once the first model is loaded and verified, before any
\* batch, with the quantization options arrived or still being fetched
LoadedInit ==
    /\ modelRef = 1 /\ nextModel = 1
    /\ isModelReady = TRUE /\ isLoadingModel = FALSE /\ isRunning = FALSE
    /\ stopRef = FALSE
    /\ runs = << >>
    /\ preparedSamples = 0
    /\ optionsFetch \in BOOLEAN
    /\ relQueue = << >>
    /\ load = IdleLoad
    /\ bench = IdleBench
    /\ inflight = {} /\ started = {}
    /\ batches = 0 /\ clears = 0 /\ emitted = 0
    /\ lastBatch = NoBatch
    /\ progress = [current |-> 0, total |-> 0]
    /\ benchStatus = "none"

\* the batches of a session whose model is loaded
BatchInit ==
    /\ LoadedInit
    /\ repeatCount \in 1..MaxRepeat
    /\ warmups \in 0..MaxWarmups
    /\ resultKind \in ResultMetrics
    /\ StoreInit(0)
    /\ UtilInit

\* what can happen while the model stays as it is or is invalidated: no
\* model is loaded again
BatchNext ==
    \/ \E i \in 1..MaxModels : ReleaseStart(i)
    \/ \E i \in 1..MaxModels : ReleaseDone(i)
    \/ ConfigChange
    \/ QuantOptionsArrive
    \/ RunBenchmarkStart
    \/ PrepareDone
    \/ DecodeDone
    \/ WarmDone
    \/ MeasDone
    \/ StopRun
    \/ ClearRuns
    \/ ClearDatasetCache

BatchSpec == BatchInit /\ [][BatchNext]_vars

\* every call a batch awaits settles: prepareSampleRows, decodeAudio and the
\* transcribe calls
BatchLiveSpec ==
    /\ BatchSpec
    /\ WF_vars(PrepareDone)
    /\ WF_vars(DecodeDone)
    /\ WF_vars(WarmDone)
    /\ WF_vars(MeasDone)

\* a session of the snapshot store: the list an earlier session persisted
\* is empty, one short of the cap, or full
SnapInit ==
    /\ CtlInit
    /\ DefaultSettings
    /\ \E n \in {0, MAX_SNAPSHOTS - 1, MAX_SNAPSHOTS} : StoreInit(n)
    /\ UtilInit

SnapNext ==
    \/ Tick
    \/ BatchAppend
    \/ ClearRuns
    \/ SaveCurrentSnapshot
    \/ ImportJsonFile
    \/ \E i \in 1..MAX_SNAPSHOTS :
         i \in DOMAIN snapshots /\ DeleteSnapshot(snapshots[i].id)

SnapSpec == SnapInit /\ [][SnapNext]_vars

\* two invocations of a sampler with the same arguments
SamplerInit ==
    /\ AppIdle
    /\ smp \in [fn : {"fetchRandomRows", "pickUniqueRandomIndices"},
                seed : SeedTexts \cup {<< >>},
                total : 0..MaxTotal, count : 0..MaxCount]
    /\ inv = [p \in Invocations |-> IdleInvocation]
    /\ FetchIdle /\ CacheIdle /\ CalcIdle /\ TrialsIdle /\ OthersIdle

SamplerNext ==
    \/ \E p \in Invocations : SamplerCall(p)
    \/ \E p \in Invocations : Draw(p)
    \/ \E p \in Invocations : PageFetched(p)

SamplerSpec == SamplerInit /\ [][SamplerNext]_vars

\* a split of three pages
PagedTotal == 2 * PAGE_LENGTH + 1

\* calls of fetchRandomRows on a split of several pages
PageInit ==
    /\ AppIdle
    /\ smp \in [fn : {"fetchRandomRows"}, seed : SeedTexts \cup {<< >>},
                total : {PagedTotal}, count : 1..MaxCount]
    /\ inv = [p \in Invocations |-> IdleInvocation]
    /\ FetchIdle /\ CacheIdle /\ CalcIdle /\ TrialsIdle /\ OthersIdle

\* one invocation
PageNext == SamplerCall(1) \/ Draw(1) \/ PageFetched(1)

PageSpec == PageInit /\ [][PageNext]_vars

\* one call of fetchJson, the server answering each request in any way
FetchInit ==
    /\ AppIdle
    /\ UtilInit

FetchNext ==
    \/ \E retries \in 0..MaxRetries : FetchJsonCall(retries)
    \/ \E status \in Statuses \cup {FETCH_REJECTED} :
         \E readable \in BOOLEAN : RequestSettles(status, readable)
    \/ BackoffDone

FetchSpec == FetchInit /\ [][FetchNext]_vars

\* calls of readThroughCache for one key, one after the other, with an
\* entry of an earlier session or none
CacheInit ==
    /\ AppIdle
    /\ SamplerIdle /\ FetchIdle /\ CalcIdle /\ TrialsIdle /\ OthersIdle
    /\ cacheEntry \in {<< >>} \cup { << [savedAt |-> 0, data |-> d] >> : d \in Payloads }
    /\ cacheNow \in 0..1
    /\ rtc = IdleCall

CacheNext ==
    \/ CacheTick
    \/ ClearLocalStorage
    \/ \E forceRefresh \in BOOLEAN, ttlMs \in 0..MaxTtl :
         ReadThroughCacheCall(forceRefresh, ttlMs)
    \/ \E data \in Payloads, stored \in BOOLEAN : FetcherResolves(data, stored)
    \/ FetcherRejects

CacheSpec == CacheInit /\ [][CacheNext]_vars

\* what every specification of a pure function starts from
PureInit == AppIdle /\ SamplerIdle /\ FetchIdle /\ CacheIdle /\ TrialsIdle /\ OthersIdle

\* a call of toCsv with a table of one of the shapes
CsvInit ==
    /\ PureInit
    /\ \E shape \in TableShapes :
         \E rows \in [1..shape[1] -> [1..shape[2] -> CsvCells]] :
            calc = [fn |-> "toCsv", pc |-> "called", rows |-> rows,
                    columns |-> SubSeq(ColumnNames, 1, shape[2]), text |-> << >>]

CsvNext == ToCsvReturns

CsvSpec == CsvInit /\ [][CsvNext]_vars

\* a call of linearFit with as many x as y values
FitInit ==
    /\ PureInit
    /\ \E n \in 0..MaxPoints :
         \E xArr \in [1..n -> 0..MaxCoord], yArr \in [1..n -> 0..MaxCoord] :
            calc = [fn |-> "linearFit", pc |-> "called", xArr |-> xArr, yArr |-> yArr,
                    fit |-> DegenerateFit]

FitNext == LinearFitReturns

FitSpec == FitInit /\ [][FitNext]_vars

\* a call of histogram
HistInit ==
    /\ PureInit
    /\ \E n \in 0..MaxValues :
         \E values \in [1..n -> 0..MaxValue], binWidth \in BinWidths :
            calc = [fn |-> "histogram", pc |-> "called", values |-> values,
                    binWidth |-> binWidth, bins |-> << >>]

HistNext == HistogramReturns

HistSpec == HistInit /\ [][HistNext]_vars

\* a call of mean, median, stddev or percentile
StatsInit ==
    /\ PureInit
    /\ \E n \in 0..MaxValues :
         \E values \in [1..n -> 0..MaxValue] \cup {OneToHundred} :
         \E fn \in {"mean", "median", "stddev", "percentile"} :
         \E p \in PercentileRanks :
            /\ fn # "percentile" => p = 90
            /\ values = OneToHundred => (fn = "percentile" /\ n = 0)
            /\ calc = [fn |-> fn, pc |-> "called", values |-> values, given |-> values,
                       p |-> p, result |-> << >>]

StatsNext ==
    \/ MeanReturns
    \/ MedianReturns
    \/ StddevReturns
    \/ PercentileReturns

StatsSpec == StatsInit /\ [][StatsNext]_vars

\* a call of textSimilarity
TextInit ==
    /\ PureInit
    /\ \E a \in StringsUpTo(TextChars, MaxTextLen), b \in StringsUpTo(TextChars, MaxTextLen) :
         calc = [fn |-> "textSimilarity", pc |-> "called", a |-> a, b |-> b,
                 result |-> RZero]

TextNext == TextSimilarityReturns

TextSpec == TextInit /\ [][TextNext]_vars

\* a batch that starts with its samples prepared
TrialInit ==
    /\ AppIdle
    /\ SamplerIdle /\ FetchIdle /\ CacheIdle /\ CalcIdle /\ OthersIdle
    /\ \E raw \in RawRowLists, rc \in 1..MaxTrials, wu \in 0..MaxWarmups :
         trials = [pc |-> "decode", samples |-> PreparedFrom(raw), n |-> Len(raw),
                   rc |-> rc, wu |-> wu, s |-> 1, w |-> 0,
                   r |-> 0, baseline |-> << >>, out |-> << >>, decoded |-> {},
                   calls |-> << >>, stop |-> FALSE]

TrialNext ==
    \/ \E ok \in BOOLEAN : TrialDecodeDone(ok)
    \/ \E ok \in BOOLEAN : TrialWarmDone(ok)
    \/ \E text \in TrialTexts : TrialMeasReturns(text)
    \/ TrialMeasThrows
    \/ TrialStop

TrialSpec == TrialInit /\ [][TrialNext]_vars

\* the release queue of a session of the page
ReleaseInit ==
    /\ AppIdle
    /\ SamplerIdle /\ FetchIdle /\ CacheIdle /\ CalcIdle /\ TrialsIdle /\ OthersIdle

ReleaseNext ==
    \/ \E sessions \in SessionSets : QueueModelReleaseCall(sessions)
    \/ QueueNullRelease
    \/ \E i \in 1..MaxModels : ReleaseTaskBegins(i)
    \/ \E i \in 1..MaxModels, session \in Sessions, ok \in BOOLEAN :
         SessionReleaseSettles(i, session, ok)

ReleaseSpec == ReleaseInit /\ [][ReleaseNext]_vars

\* every promise callback runs and every session release call settles
ReleaseLiveSpec ==
    /\ ReleaseSpec
    /\ WF_vars(\E i \in 1..MaxModels : ReleaseTaskBegins(i))
    /\ WF_vars(\E i \in 1..MaxModels, session \in Sessions, ok \in BOOLEAN :
                  SessionReleaseSettles(i, session, ok))

\* the request queue of a page
QueueInit ==
    /\ AppIdle
    /\ SamplerIdle /\ FetchIdle /\ CacheIdle /\ CalcIdle /\ TrialsIdle /\ OthersIdle

\* how long a request takes
RequestTimes == {0, MIN_REQUEST_GAP_MS}

QueueNext ==
    \/ \E caller \in Callers : EnqueueRequest(caller)
    \/ \E i \in 1..MaxTasks : QueueTaskBegins(i)
    \/ \E i \in 1..MaxTasks : QueueSleepEnds(i)
    \/ \E i \in 1..MaxTasks, ok \in BOOLEAN, ms \in RequestTimes :
         QueueTaskSettles(i, ok, ms)

QueueSpec == QueueInit /\ [][QueueNext]_vars

\* every promise callback runs, every timer fires, every request settles
QueueLiveSpec ==
    /\ QueueSpec
    /\ WF_vars(\E i \in 1..MaxTasks : QueueTaskBegins(i))
    /\ WF_vars(\E i \in 1..MaxTasks : QueueSleepEnds(i))
    /\ WF_vars(\E i \in 1..MaxTasks, ok \in BOOLEAN, ms \in RequestTimes :
                  QueueTaskSettles(i, ok, ms))

\* calls of fetchSequentialRows
SeqInit ==
    /\ AppIdle
    /\ SamplerIdle /\ FetchIdle /\ CacheIdle /\ CalcIdle /\ TrialsIdle /\ OthersIdle

SeqNext ==
    \/ \E startOffset \in StartOffsets, limit \in SeqLimits :
         FetchSequentialRowsCall(startOffset, limit)
    \/ \E k \in 0..PAGE_LENGTH : SeqPageArrives(k)
    \/ SeqPageFails

SeqSpec == SeqInit /\ [][SeqNext]_vars

\* every page request settles
SeqLiveSpec ==
    /\ SeqSpec
    /\ WF_vars(\E k \in 0..PAGE_LENGTH : SeqPageArrives(k))
    /\ WF_vars(SeqPageFails)

\* calls of loadModelWithFallback
LoaderInit ==
    /\ AppIdle
    /\ SamplerIdle /\ FetchIdle /\ CacheIdle /\ CalcIdle /\ TrialsIdle /\ OthersIdle

LoaderNext ==
    \/ \E options \in QuantPairs : LoadModelWithFallbackCall(options)
    \/ \E ok \in BOOLEAN, quantisation \in QuantPairs :
         LoaderDownloadSettles(ok, quantisation)
    \/ \E ok \in BOOLEAN : LoaderCompileSettles(ok)

LoaderSpec == LoaderInit /\ [][LoaderNext]_vars

\* every request settles and every sleep ends
FetchLiveSpec ==
    /\ FetchSpec
    /\ WF_vars(\E status \in Statuses \cup {FETCH_REJECTED} :
                 \E readable \in BOOLEAN : RequestSettles(status, readable))
    /\ WF_vars(BackoffDone)

\* ================================================================ claims
LB == lastBatch.b

\* the Runs of the sample at position i among the Runs `out`
RunsOf(out, i) == SelectSeq(out, LAMBDA x : x.sample = i)

\* a batch with samples ended and neither a stop request nor a failing
\* transcribe expression occurred in it
CleanBatchEnded ==
    lastBatch.status # "none" /\ LB.n >= 1 /\ ~LB.stopSeen /\ ~LB.infFailed

\* C1: when decoding the audio of a sample fails (no stop requested, every
\* inference call returns), that sample contributes exactly one Run, with
\* repeatIndex 0, error set and metrics null, no inference call is made for
\* it, and every other sample contributes repeatCount measured Runs, all of
\* which reach the run log.
DecodeFailureIsolated ==
    CleanBatchEnded =>
        /\ lastBatch.status = "completed"
        /\ SubSeq(runs, Len(runs) - Len(LB.out) + 1, Len(runs)) = LB.out
        /\ \A i \in 1..LB.n :
             IF i \in LB.decFailed
             THEN /\ RunsOf(LB.out, i) =
                        << [batch |-> LB.batch, sample |-> i, repeatIndex |-> 0,
                            error |-> "decode", metrics |-> "null"] >>
                  /\ LB.calls[i] = 0
             ELSE /\ Len(RunsOf(LB.out, i)) = LB.rc
                  /\ \A k \in 1..LB.rc :
                       /\ RunsOf(LB.out, i)[k].error = "none"
                       /\ RunsOf(LB.out, i)[k].repeatIndex = k

\* C1 witness: a clean batch of several samples ended in which the decode of
\* one sample failed and the decode of another succeeded
DecodeFailureIsolatedWitness ==
    /\ CleanBatchEnded
    /\ LB.n >= 2
    /\ LB.decFailed # {}
    /\ LB.decoded # {}
    /\ \E i \in LB.decFailed : \E j \in LB.decoded : i < j

\* C2: (the claim as stated) for a sample whose audio decoded and with no
\* stop requested, exactly repeatCount Runs are emitted, whatever trials of
\* the sample fail.
RepeatCountRunsPerDecodedSample ==
    (lastBatch.status # "none" /\ ~LB.stopSeen) =>
        \A i \in LB.decoded : Len(RunsOf(LB.out, i)) = LB.rc

\* C3: (the claim as stated) no error of an inference call ends a batch as
\* failed: a batch fails only at setup, before any sample is prepared, so a
\* failed batch has emitted no Run that is missing from the run log.
OnlySetupFailuresFailBatch ==
    lastBatch.status = "failed" => (LB.n = 0 /\ LB.out = << >>)

\* C4: (the claim as stated) every Run of the run log has either an error and
\* null metrics, or no error and metrics with a finite total_ms.
RunErrorXorFiniteMetrics ==
    \A k \in DOMAIN runs :
        \/ runs[k].error # "none" /\ runs[k].metrics = "null"
        \/ runs[k].error = "none" /\ runs[k].metrics = "full"

\* C4 (amended): every Run of the run log has either an error and null
\* metrics, or no error and, as its metrics, the metrics field of the
\* backend's result, whatever that is.
RunErrorXorBackendMetrics ==
    \A k \in DOMAIN runs :
        \/ runs[k].error # "none" /\ runs[k].metrics = "null"
        \/ runs[k].error = "none" /\ runs[k].metrics = resultKind
                                  /\ runs[k].repeatIndex >= 1

\* C4 witness: the log holds an error Run of a measured trial and a success
\* Run whose metrics have no finite total_ms
RunErrorXorBackendMetricsWitness ==
    /\ \E k \in DOMAIN runs : runs[k].error = "transcribe"
    /\ \E k \in DOMAIN runs : runs[k].error = "none" /\ runs[k].metrics # "full"

\* C5: (the claim as stated) with no batch running, the run log holds exactly
\* the Runs that the batches emitted since the log was last cleared.
RunLogHoldsEveryEmittedRun ==
    bench.pc = "idle" => Len(runs) = emitted

\* C6: once the stop flag is set in a running batch, no step starts a
\* transcribe call of the batch or moves it to another await; the step that
\* resumes the batch ends it, and when a measured trial was in flight at the
\* stop request the batch completes with the Run of that trial in the log.
StopHaltsStep ==
    (stopRef /\ bench.pc # "idle") =>
        /\ \A c \in started' : c.who # "bench"
        /\ bench'.pc # "idle" =>
             /\ bench'.pc = bench.pc /\ bench'.s = bench.s
             /\ bench'.w = bench.w /\ bench'.r = bench.r
             /\ bench'.calls = bench.calls
        /\ (bench'.pc = "idle" /\ bench.stopInflight # << >>) =>
             /\ lastBatch'.status = "completed"
             /\ \E k \in DOMAIN runs' :
                  /\ k > Len(runs)
                  /\ runs'[k].batch = bench.batch
                  /\ runs'[k].sample = bench.stopInflight[1]
                  /\ runs'[k].repeatIndex = bench.stopInflight[2]

\* C6: every step of every behaviour is such a step.
StopHaltsBatch == [][StopHaltsStep]_vars

\* C6 witness: a batch ended after stop was requested during a measured
\* trial, with samples or repeats still left to run
StopHaltsBatchWitness ==
    /\ lastBatch.status = "completed"
    /\ LB.stopInflight # << >>
    /\ LB.done < LB.n * LB.rc
    /\ LB.done >= 1

\* the Runs a batch has emitted so far, running or ended
BatchOuts == { bench.out, LB.out }

\* the repeatCount of the batch that emitted `out`
RcOf(out) == IF out = bench.out /\ bench.pc # "idle" THEN bench.rc ELSE LB.rc

\* C7: (the claim as stated) within a batch the Runs of a sample have
\* strictly increasing repeatIndex in 1..repeatCount, and the Runs appear in
\* the order of the sample positions.
RepeatIndexFromOne ==
    \A out \in BatchOuts : \A k \in DOMAIN out :
        /\ out[k].repeatIndex \in 1..RcOf(out)
        /\ \A l \in DOMAIN out : k < l =>
             /\ out[k].sample <= out[l].sample
             /\ out[k].sample = out[l].sample => out[k].repeatIndex < out[l].repeatIndex

\* C7 (amended): within a batch the Runs of a sample have strictly increasing
\* repeatIndex, in 1..repeatCount for measured trials and 0 for the single
\* Run of a sample whose decode failed, and the Runs appear in the order of
\* the sample positions.
RepeatIndexOrdered ==
    \A out \in BatchOuts : \A k \in DOMAIN out :
        /\ IF out[k].error = "decode" THEN out[k].repeatIndex = 0
           ELSE out[k].repeatIndex \in 1..RcOf(out)
        /\ \A l \in DOMAIN out : k < l =>
             /\ out[k].sample <= out[l].sample
             /\ out[k].sample = out[l].sample => out[k].repeatIndex < out[l].repeatIndex

\* C7 witness: a batch emitted a decode-failure Run and then two Runs of a
\* later sample
RepeatIndexOrderedWitness ==
    \E k \in DOMAIN LB.out : \E l \in DOMAIN LB.out :
        /\ LB.out[k].repeatIndex = 0
        /\ k < l /\ l < Len(LB.out)
        /\ LB.out[l].sample = LB.out[l + 1].sample
        /\ LB.out[l].repeatIndex = 1 /\ LB.out[l + 1].repeatIndex = 2

\* C8: at most one transcribe call is in flight; runBenchmark and loadModel
\* never run at the same time, which is what keeps the calls apart.
OneTranscribeInFlight ==
    /\ Cardinality(inflight) <= 1
    /\ ~(bench.pc # "idle" /\ load.pc # "idle")
    /\ isRunning = (bench.pc # "idle")
    /\ isLoadingModel = (load.pc # "idle")

\* C8 witness: a measured transcribe of a batch is in flight
OneTranscribeInFlightWitness ==
    /\ bench.pc = "meas"
    /\ inflight = {[who |-> "bench", model |-> modelRef]}
    /\ modelRef # 0

\* C9: (the claim as stated) no transcribe call starts on a model that has
\* been queued for release.
NoTranscribeAfterReleaseQueued ==
    \A c \in started : c.model \notin QueuedModels

\* C10: at most one release is executing, and a release has started only
\* when every release queued before it has finished.
ReleasesOneAtATime ==
    /\ Cardinality({ i \in DOMAIN relQueue : relQueue[i].st = "running" }) <= 1
    /\ \A i \in DOMAIN relQueue : \A j \in DOMAIN relQueue :
         (i < j /\ relQueue[j].st # "queued") => relQueue[i].st = "done"

\* C10 witness: a second release is executing after the first one finished
ReleasesOneAtATimeWitness ==
    /\ Len(relQueue) >= 2
    /\ relQueue[1].st = "done"
    /\ relQueue[2].st = "running"

\* C11: while loadModel downloads or compiles the new model, every release
\* queued so far has completed: loadModel went past
\* `await queueModelRelease(previousModel)` only after the whole chain
\* settled, also when previousModel was null and the release of the
\* detached model was still in flight.
LoadWaitsForReleases ==
    load.pc \in {"download", "compile"} =>
        \A i \in DOMAIN relQueue : relQueue[i].st = "done"

\* C11 witness: loadModel found modelRef null and is held at its await by
\* the release of the detached model, which is executing
LoadWaitsForReleasesWitness ==
    /\ load.pc = "awaitRelease"
    /\ load.prev = 0
    /\ load.wait >= 1
    /\ relQueue[load.wait].st = "running"

\* C12: (the claim as stated) whenever isModelReady is true, modelRef holds
\* a model, and that model has not been handed to the release queue: a
\* configuration change, also one during loadModel, leaves readiness
\* cleared and the detached model queued.
ReadyModelIsLoaded ==
    isModelReady => (modelRef # 0 /\ modelRef \notin QueuedModels)

\* no verified model is loaded
NoVerifiedModel == modelRef = 0 \/ ~isModelReady

\* C13: a step that sets isRunning is taken with a verified model loaded;
\* with none loaded no step starts a batch or an inference call of one, and
\* the runBenchmark invocation that reports the refusal leaves isRunning
\* false and the run log, the progress and the calls in flight unchanged.
\* No step taken while runBenchmark prepares its samples changes the run
\* log, and a batch for which no sample was prepared ends as failed with
\* the run log unchanged and no inference call made.
RefusedStartStep ==
    /\ (~isRunning /\ isRunning') => ~NoVerifiedModel
    /\ (bench.pc = "idle" /\ NoVerifiedModel) =>
          /\ bench'.pc = "idle" /\ ~isRunning'
          /\ \A c \in started' : c.who # "bench"
    /\ (benchStatus' = "refused" /\ benchStatus # "refused") =>
          /\ NoVerifiedModel
          /\ ~isRunning' /\ bench' = bench
          /\ runs' = runs /\ progress' = progress /\ inflight' = inflight
    /\ bench.pc = "prepare" =>
          /\ runs' = runs
          /\ (bench'.pc = "idle" /\ lastBatch'.b.n = 0) =>
                /\ lastBatch'.status = "failed"
                /\ lastBatch'.b.out = << >>
                /\ lastBatch'.b.calls = << >>
                /\ progress' = progress

\* C13: every step of every behaviour is such a step.
RefusedStartChangesNothing == [][RefusedStartStep]_vars

\* C13 witness: runBenchmark was refused (isModelReady is set and modelRef
\* is null) with Runs in the log and the progress of an earlier batch shown
RefusedStartChangesNothingWitness ==
    /\ benchStatus = "refused"
    /\ isModelReady /\ modelRef = 0
    /\ Len(runs) > 0 /\ progress.total > 0

\* the objects reachable from a list of Runs
RefsOf(rs) ==
    ({ rs[i].ref : i \in DOMAIN rs } \cup { rs[i].mref : i \in DOMAIN rs })
        \ {NullRef}

\* no stored Run or metrics object of a snapshot is an object of the run log
SnapshotsShareNothing ==
    \A k \in DOMAIN snapshots : RefsOf(snapshots[k].runs) \cap RefsOf(runs) = {}

\* C14: a step that changes the run log (a batch appended, Clear) leaves
\* every snapshot, and so the runs stored in it, as it was, and before and
\* after every step the runs stored in the snapshots are objects of their
\* own: no stored Run and no stored metrics object is an object of the run
\* log.
SnapshotRunsIsolatedStep ==
    /\ SnapshotsShareNothing /\ SnapshotsShareNothing'
    /\ runs' # runs => snapshots' = snapshots

\* C14: every step of a session of the store is such a step.
SnapshotRunsIsolated == [][SnapshotRunsIsolatedStep]_vars

\* C14 witness: a snapshot saved in this session stores a Run with metrics,
\* and the log has since been cleared and holds the Runs of a later batch
SnapshotRunsIsolatedWitness ==
    /\ clears >= 1 /\ Len(runs) > 0
    /\ \E k \in DOMAIN snapshots :
         /\ ~snapshots[k].imported /\ snapshots[k].id[2] >= ClockStart
         /\ \E i \in DOMAIN snapshots[k].runs : snapshots[k].runs[i].metrics # "null"
         /\ \A i \in DOMAIN snapshots[k].runs : \A j \in DOMAIN runs :
              snapshots[k].runs[i].batch # runs[j].batch

\* the time in the id of a snapshot: Date.now() when it was added
IdTime(snapshot) == snapshot.id[2]

\* at most MAX_SNAPSHOTS snapshots, the later added ones first
SnapshotListBounded ==
    /\ Len(snapshots) <= MAX_SNAPSHOTS
    /\ \A i \in DOMAIN snapshots : \A j \in DOMAIN snapshots :
         i < j => IdTime(snapshots[i]) >= IdTime(snapshots[j])

\* C15: the list holds at most 20 snapshots, ordered by the time they were
\* added, newest first; a save or import puts the new snapshot first, keeps
\* the others in their order and, when the list was full, drops exactly the
\* last (oldest) one; deleteSnapshot(id) removes the snapshots with that id
\* and no other, and keeps the rest in their order.
SnapshotListStep ==
    /\ SnapshotListBounded /\ SnapshotListBounded'
    /\ adds' # adds =>
          /\ Len(snapshots') = Min(Len(snapshots) + 1, MAX_SNAPSHOTS)
          /\ IdTime(snapshots'[1]) = clock
          /\ Tail(snapshots') = SubSeq(snapshots, 1, Len(snapshots') - 1)
    /\ deletes' # deletes =>
          \E k \in DOMAIN snapshots :
              /\ \A l \in DOMAIN snapshots' : snapshots'[l].id # snapshots[k].id
              /\ snapshots' = SelectSeq(snapshots,
                                        LAMBDA item : item.id # snapshots[k].id)

\* C15: every step of a session of the store is such a step.
SnapshotListDiscipline == [][SnapshotListStep]_vars

\* C15 witness: the list was full, an import and a save have each evicted
\* the oldest snapshot, and the list is full again
SnapshotListDisciplineWitness ==
    /\ Len(snapshots) = MAX_SNAPSHOTS
    /\ snapshots[1].imported
    /\ ~snapshots[2].imported /\ IdTime(snapshots[2]) >= ClockStart
    /\ IdTime(snapshots[MAX_SNAPSHOTS]) = 3

\* the draw loop of invocation p has been left
DrawingOver(p) == inv[p].pc \in {"pages", "done"}

\* C16: with a non-empty seed, two invocations of the sampler with the same
\* total and count that have left their draw loops selected the same
\* indices in the same order, however their steps interleave and whatever
\* their page fetches return.
SeededSamplerDeterministic ==
    smp.seed # << >> =>
        \A p, q \in Invocations :
            (DrawingOver(p) /\ DrawingOver(q)) =>
                /\ inv[p].selected = inv[q].selected
                /\ inv[p].requested = inv[q].requested

\* two seeded invocations of fetchRandomRows selected the same two offsets
\* while their page fetches ended differently
SeededSamplerDeterministicWitness ==
    /\ smp.fn = "fetchRandomRows"
    /\ smp.seed # << >>
    /\ inv[1].pc = "done" /\ inv[2].pc = "done"
    /\ Cardinality(inv[1].selected) = 2
    /\ inv[1].requested = inv[2].requested
    /\ inv[1].failed = << >> /\ inv[2].ok = << >>

\* C17: the number of draws of an invocation never exceeds the maximum
\* attempt count min(3 * total, total + 20 * wanted), in fetchRandomRows
\* and in pickUniqueRandomIndices.
DrawsWithinAttemptCap ==
    \A p \in Invocations :
        inv[p].attempts <= Min(SamplerRange(smp) * 3,
                               SamplerRange(smp) + SamplerWanted(smp) * 20)

\* C18: the selected indices are pairwise distinct, each lies in
\* [0, total), and there are at most min(wanted, total) of them (total and
\* wanted as the functions normalise them).
SelectedIndicesValid ==
    \A p \in Invocations :
        /\ inv[p].selected \subseteq 0..(SamplerRange(smp) - 1)
        /\ { inv[p].requested[k] : k \in DOMAIN inv[p].requested } = inv[p].selected
        /\ Len(inv[p].requested) = Cardinality(inv[p].selected)
        /\ Cardinality(inv[p].selected) <= Min(SamplerWanted(smp), SamplerRange(smp))

\* an invocation drew an index a second time and went on to select
\* min(wanted, total) = 2 indices
SelectedIndicesValidWitness ==
    \E p \in Invocations :
        /\ DrawingOver(p)
        /\ Cardinality(inv[p].selected) = 2
        /\ inv[p].attempts > 2
        /\ Min(SamplerWanted(smp), SamplerRange(smp)) = 2

\* fetchRandomRows was called with 1 <= wanted <= total
WantedWithinTotal ==
    /\ smp.fn = "fetchRandomRows"
    /\ 1 <= smp.count /\ smp.count <= smp.total

\* C19 as stated: for 1 <= wanted <= total, fetchRandomRows has collected
\* exactly wanted distinct offsets when it stops drawing.
OffsetsCollectExactlyWanted ==
    WantedWithinTotal =>
        \A p \in Invocations :
            DrawingOver(p) => Cardinality(inv[p].selected) = smp.count

\* C19: for 1 <= wanted <= total, fetchRandomRows stops drawing with at
\* most wanted distinct offsets, and with exactly wanted of them unless it
\* has made min(3 * total, total + 20 * wanted) draws.
OffsetsCollectWantedOrCap ==
    WantedWithinTotal =>
        \A p \in Invocations :
            DrawingOver(p) =>
                /\ Cardinality(inv[p].selected) <= smp.count
                /\ \/ Cardinality(inv[p].selected) = smp.count
                   \/ inv[p].attempts = Min(smp.total * 3, smp.total + smp.count * 20)

\* a seeded fetchRandomRows stopped at the cap with fewer offsets than wanted
OffsetsCollectWantedOrCapWitness ==
    /\ WantedWithinTotal
    /\ smp.seed # << >>
    /\ \E p \in Invocations :
         /\ DrawingOver(p)
         /\ Cardinality(inv[p].selected) < smp.count
         /\ inv[p].attempts = Min(smp.total * 3, smp.total + smp.count * 20)

\* C20: a response with a non-OK status other than 5xx and 429 (for example
\* 404) makes fetchJson fail after that single request: it is the last
\* request sent, and the call has failed.
NonRetryableStatusNotRetried ==
    \A k \in DOMAIN fj.log :
        (/\ fj.log[k] # FETCH_REJECTED
         /\ ~ResponseOk(fj.log[k])
         /\ ~ShouldRetry(fj.log[k])) =>
            (k = Len(fj.log) /\ fj.pc = "failed")

\* a called fetchJson settles
FetchJsonTerminates == (fj.pc # "idle") ~> (fj.pc \in {"returned", "failed"})

\* at most retries + 1 requests; what is returned is the body of the first
\* response with a status in 200..299
FetchJsonBudget ==
    /\ Len(fj.log) <= fj.retries + 1
    /\ fj.pc = "returned" =>
          /\ fj.log # << >>
          /\ fj.log[Len(fj.log)] \in 200..299
          /\ \A k \in 1..(Len(fj.log) - 1) : fj.log[k] \notin 200..299

\* fetchJson throws only with the budget used up, the error of the last
\* attempt
ThrowsOnlyLastAttempt ==
    fj.pc = "failed" =>
        /\ Len(fj.log) = fj.retries + 1
        /\ fj.thrown # << >>
        /\ fj.thrown[1].attempt = fj.retries
        /\ fj.thrown[1].kind \in {"http", "network", "text"}

\* C21 as stated: fetchJson sends at most retries + 1 requests and always
\* terminates: it returns the parsed body of the first OK response or, with
\* the retry budget used up, throws the error of the last failed attempt.
FetchJsonReturnsOrExhausts ==
    /\ [](FetchJsonBudget /\ ThrowsOnlyLastAttempt)
    /\ FetchJsonTerminates

\* fetchJson throws the error of the attempt of its last request: with the
\* budget used up, or the parse error of an OK response
ThrowsLastOrParseError ==
    fj.pc = "failed" =>
        /\ fj.thrown # << >>
        /\ fj.thrown[1].attempt = Len(fj.log) - 1
        /\ IF fj.log[Len(fj.log)] \in 200..299
           THEN fj.thrown[1].kind = "parse"
           ELSE /\ Len(fj.log) = fj.retries + 1
                /\ fj.thrown[1].kind \in {"http", "network", "text"}

\* C21: fetchJson sends at most retries + 1 requests and always terminates:
\* it returns the parsed body of the first OK response, or throws the parse
\* error of the first OK response when its body is no JSON, or, with the
\* retry budget used up, throws the error of the last failed attempt.
FetchJsonReturnsParseErrorOrExhausts ==
    /\ [](FetchJsonBudget /\ ThrowsLastOrParseError)
    /\ FetchJsonTerminates

\* an OK response with a body that is no JSON ended the call while
\* attempts were left, after an earlier attempt had failed
FetchJsonReturnsParseErrorOrExhaustsWitness ==
    /\ fj.pc = "failed"
    /\ fj.thrown # << >> /\ fj.thrown[1].kind = "parse"
    /\ Len(fj.log) = 2
    /\ fj.retries = 2

\* the call found an entry that is fresh by the claim's definition and was
\* not told to refresh
ServedFromCache ==
    /\ ~rtc.forceRefresh
    /\ rtc.cached # << >>
    /\ rtc.at - rtc.cached[1].savedAt <= rtc.ttlMs

\* the cached entry is returned without a fetcher call exactly when it is
\* fresh and no refresh is forced; otherwise the fetcher is called once
CacheHitExactlyWhenFresh ==
    rtc.pc # "idle" =>
        /\ rtc.calls = (IF ServedFromCache THEN 0 ELSE 1)
        /\ ServedFromCache =>
              /\ rtc.pc = "returned"
              /\ rtc.result = << [data |-> rtc.cached[1].data,
                                  fromCache |-> TRUE, stale |-> FALSE] >>

\* a step in which the fetcher of the call succeeds
FetcherSucceeded ==
    /\ rtc.pc = "fetching" /\ rtc'.pc = "returned"
    /\ ~rtc'.result[1].fromCache

\* C22 as stated: the cached entry is returned without a fetcher call
\* exactly when forceRefresh is false and now - savedAt <= ttl; otherwise the
\* fetcher is called once and, on success, its result is written to the
\* cache with savedAt = now and returned with stale = false.
FetchedResultAlwaysCached ==
    /\ []CacheHitExactlyWhenFresh
    /\ [][FetcherSucceeded =>
            /\ ~rtc'.result[1].stale
            /\ cacheEntry' = << [savedAt |-> cacheNow, data |-> rtc'.result[1].data] >>]_vars

\* C22: the cached entry is returned without a fetcher call exactly when
\* forceRefresh is false and now - savedAt <= ttl; otherwise the fetcher is
\* called once and, on success, its result is returned with stale = false
\* and the cache holds it with savedAt = now, or is left as it was (the
\* write failed and was ignored).
FetchedResultCachedUnlessWriteFails ==
    /\ []CacheHitExactlyWhenFresh
    /\ [][FetcherSucceeded =>
            /\ ~rtc'.result[1].stale
            /\ \/ cacheEntry' = << [savedAt |-> cacheNow, data |-> rtc'.result[1].data] >>
               \/ cacheEntry' = cacheEntry]_vars

\* an entry older than its ttl (age 2, ttl 1) was replaced by a fetched
\* result with other data, saved at the time of the write
FetchedResultCachedUnlessWriteFailsWitness ==
    /\ rtc.pc = "returned"
    /\ rtc.cached # << >>
    /\ rtc.ttlMs = 1
    /\ rtc.at - rtc.cached[1].savedAt = 2
    /\ ~rtc.result[1].fromCache
    /\ cacheEntry = << [savedAt |-> cacheNow, data |-> rtc.result[1].data] >>
    /\ rtc.cached[1].data # rtc.result[1].data

\* a step in which the fetcher of the call fails
FetcherFailed ==
    /\ rtc.pc = "fetching"
    /\ rtc'.pc = "threw" \/ (rtc'.pc = "returned" /\ rtc'.result[1].fromCache)

\* C23 as stated: when the fetcher fails and an entry was present, however
\* old, its data is returned with stale = true and the entry is left
\* unchanged; the error propagates only when no entry was present.
StaleServedWheneverEntryPresent ==
    [][FetcherFailed =>
         /\ cacheEntry' = cacheEntry
         /\ IF rtc.cached # << >>
            THEN /\ rtc'.pc = "returned"
                 /\ rtc'.result = << [data |-> rtc.cached[1].data,
                                      fromCache |-> TRUE, stale |-> TRUE] >>
            ELSE rtc'.pc = "threw"]_vars

\* C23: when the fetcher fails and an entry with data that is not falsy was
\* present, however old, its data is returned with stale = true and the
\* entry is left unchanged; the error propagates when no entry was present
\* or its data is falsy.
StaleServedWhenDataPresent ==
    [][FetcherFailed =>
         /\ cacheEntry' = cacheEntry
         /\ IF rtc.cached # << >> /\ rtc.cached[1].data # FalsyData
            THEN /\ rtc'.pc = "returned"
                 /\ rtc'.result = << [data |-> rtc.cached[1].data,
                                      fromCache |-> TRUE, stale |-> TRUE] >>
            ELSE rtc'.pc = "threw"]_vars

\* an entry older than its ttl was served as stale after a failed fetch
StaleServedWhenDataPresentWitness ==
    /\ rtc.pc = "returned"
    /\ rtc.result[1].stale
    /\ rtc.at - rtc.cached[1].savedAt > rtc.ttlMs
    /\ cacheEntry = rtc.cached

\* a CSV parser after RFC 4180, records separated by a line feed: the
\* records parsed from the rest of the text, given the mode (at the start of
\* a field, in a plain field, in a quoted field, after a quote in a quoted
\* field), the field and the record read so far
RECURSIVE ParseCsvFrom(_, _, _, _)
ParseCsvFrom(rest, mode, field, record) ==
    IF rest = << >> THEN << Append(record, field) >>
    ELSE LET c == Head(rest)
             more == Tail(rest)
         IN IF mode = "quoted"
            THEN IF c = "\"" THEN ParseCsvFrom(more, "quoteSeen", field, record)
                 ELSE ParseCsvFrom(more, "quoted", Append(field, c), record)
            ELSE IF mode = "quoteSeen" /\ c = "\""
            THEN ParseCsvFrom(more, "quoted", Append(field, c), record)
            ELSE IF c = "," THEN ParseCsvFrom(more, "start", << >>, Append(record, field))
            ELSE IF c = "\n"
            THEN << Append(record, field) >> \o ParseCsvFrom(more, "start", << >>, << >>)
            ELSE IF mode = "start" /\ c = "\""
            THEN ParseCsvFrom(more, "quoted", field, record)
            ELSE ParseCsvFrom(more, "plain", Append(field, c), record)

ParseCsv(text) == ParseCsvFrom(text, "start", << >>, << >>)

\* the records a parser should find: the header, then the strings of the
\* cells of every row
ExpectedRecords(rows, columns) ==
    << columns >> \o [r \in DOMAIN rows |-> [c \in DOMAIN rows[r] |-> rows[r][c].text]]

\* C24: toCsv writes a field value with a comma, a double quote or a
\* newline in double quotes with its quotes doubled, and every other value
\* verbatim, so that a CSV parser recovers the header and each field
\* string, every data line with as many fields as the header.
CsvRoundTrips ==
    (calc.fn = "toCsv" /\ calc.pc = "returned") =>
        /\ ParseCsv(calc.text) = ExpectedRecords(calc.rows, calc.columns)
        /\ \A r \in DOMAIN calc.rows : \A c \in DOMAIN calc.rows[r] :
             LET cell == calc.rows[r][c]
                 special == \E k \in DOMAIN cell.text : cell.text[k] \in {"\"", ",", "\n"}
             IN CsvEscape(cell) = IF special
                                  THEN << "\"" >> \o DoubleQuotes(cell.text) \o << "\"" >>
                                  ELSE cell.text

\* a row whose first field holds a quote and a comma and whose second
\* holds a newline was written
CsvRoundTripsWitness ==
    /\ calc.fn = "toCsv" /\ calc.pc = "returned"
    /\ Len(calc.rows) = 1 /\ Len(calc.columns) = 2
    /\ calc.rows[1][1].text = << "\"", "," >>
    /\ calc.rows[1][2].text = << "a", "\n" >>
    /\ calc.text = << "a", ",", "b", "\n",
                      "\"", "\"", "\"", ",", "\"", ",", "\"", "a", "\n", "\"" >>

\* C25: linearFit returns a = 0, b = 0, r2 = 0 when it is given fewer
\* than 2 points and when all x values are equal, whatever the y values.
LinearFitDegenerate ==
    (/\ calc.fn = "linearFit" /\ calc.pc = "returned"
     /\ \/ Len(calc.xArr) < 2
        \/ \A i, j \in DOMAIN calc.xArr : calc.xArr[i] = calc.xArr[j]) =>
        calc.fit = DegenerateFit

\* C26: mean, median and stddev each return null when given an empty
\* sequence.
EmptyStatsAreNull ==
    (/\ calc.fn \in {"mean", "median", "stddev"}
     /\ calc.pc = "returned"
     /\ calc.given = << >>) =>
        calc.result = << >>

\* the ascending sort of a sequence, as a property: a permutation in order
IsAscendingSortOf(sorted, values) ==
    /\ Len(sorted) = Len(values)
    /\ \A i \in 1..(Len(sorted) - 1) : sorted[i] <= sorted[i + 1]
    /\ \A v \in { values[i] : i \in DOMAIN values } :
         Cardinality({ i \in DOMAIN values : values[i] = v })
            = Cardinality({ i \in DOMAIN sorted : sorted[i] = v })

\* C27: for a non-empty sequence of n numbers, percentile(values, p)
\* returns the element at index clamp(ceil(p / 100 * n) - 1, 0, n - 1) of
\* the ascending sort of the values, leaves its input unmodified, and
\* percentile([1..100], 90) = 90.
PercentileIsNearestRank ==
    (/\ calc.fn = "percentile" /\ calc.pc = "returned"
     /\ calc.given # << >>) =>
        LET n == Len(calc.given)
            up == IF (calc.p * n) % 100 = 0 THEN (calc.p * n) \div 100
                  ELSE (calc.p * n) \div 100 + 1
            index == IF up - 1 < 0 THEN 0 ELSE IF up - 1 > n - 1 THEN n - 1 ELSE up - 1
        IN /\ \E sorted \in { SortAscending(calc.given) } :
                /\ IsAscendingSortOf(sorted, calc.given)
                /\ calc.result = << << sorted[index + 1], 1 >> >>
           /\ calc.values = calc.given
           /\ (calc.given = OneToHundred /\ calc.p = 90) => calc.result = << << 90, 1 >> >>

\* percentile([1..100], 90) returned
PercentileIsNearestRankWitness ==
    /\ calc.fn = "percentile" /\ calc.pc = "returned"
    /\ calc.given = OneToHundred /\ calc.p = 90
    /\ calc.result = << << 90, 1 >> >>

\* C28: textSimilarity(a, b) lies in [0, 1], is symmetric in its
\* arguments, and equals 1 exactly when the normalized forms of a and b are
\* equal, including when both are empty.
TextSimilarityBoundedSymmetric ==
    (calc.fn = "textSimilarity" /\ calc.pc = "returned") =>
        /\ calc.result[1] >= 0 /\ calc.result[1] <= calc.result[2]
        /\ calc.result = TextSimilarity(calc.b, calc.a)
        /\ (calc.result = << 1, 1 >>) <=> (NormalizeText(calc.a) = NormalizeText(calc.b))

\* two texts that differ in case, punctuation and blanks have similarity 1
TextSimilarityBoundedSymmetricWitness ==
    /\ calc.fn = "textSimilarity" /\ calc.pc = "returned"
    /\ calc.a = << "a", " ", "B" >>
    /\ calc.b = << "a", "!", "b" >>
    /\ calc.result = << 1, 1 >>

\* the places in out of the Runs of sample s that succeeded, and the first
OkRunsOf(s) == { k \in DOMAIN trials.out :
                   trials.out[k].sample = s /\ trials.out[k].error = "none" }
FirstOkRunOf(s) == CHOOSE k \in OkRunsOf(s) : \A j \in OkRunsOf(s) : k <= j

\* C29: for each sample the first measured trial that succeeds has
\* exactMatchToFirst = true and similarityToFirst = 1; every successful Run
\* of the sample has exactMatchToFirst true exactly when its normalized
\* transcription equals that of the first; error Runs have both fields
\* null; the baseline starts anew with each sample.
BaselineIsFirstSuccess ==
    trials.pc # "idle" =>
        /\ \A s \in 1..trials.n : OkRunsOf(s) # {} =>
              LET first == trials.out[FirstOkRunOf(s)]
              IN /\ first.exactMatchToFirst = << TRUE >>
                 /\ first.similarityToFirst = << << 1, 1 >> >>
                 /\ \A k \in OkRunsOf(s) :
                      trials.out[k].exactMatchToFirst =
                          << NormalizeText(trials.out[k].transcription)
                               = NormalizeText(first.transcription) >>
        /\ \A k \in DOMAIN trials.out : trials.out[k].error # "none" =>
              /\ trials.out[k].exactMatchToFirst = << >>
              /\ trials.out[k].similarityToFirst = << >>
        /\ (trials.pc = "meas" /\ trials.baseline # << >>) =>
              /\ OkRunsOf(trials.s) # {}
              /\ trials.baseline =
                   << NormalizeText(trials.out[FirstOkRunOf(trials.s)].transcription) >>

\* in the second sample trial 1 threw, trial 2 set the baseline, and trial 3
\* differed from it; the first sample's baseline was another text
BaselineIsFirstSuccessWitness ==
    /\ trials.pc = "done" /\ trials.n = 2
    /\ OkRunsOf(1) # {} /\ OkRunsOf(2) # {}
    /\ trials.out[FirstOkRunOf(2)].repeatIndex = 2
    /\ \E k \in OkRunsOf(2) :
         /\ trials.out[k].repeatIndex = 3
         /\ trials.out[k].exactMatchToFirst = << FALSE >>
    /\ NormalizeText(trials.out[FirstOkRunOf(1)].transcription)
         # NormalizeText(trials.out[FirstOkRunOf(2)].transcription)

\* C30: for each sample whose audio decoded, with no stop requested,
\* runBenchmark makes exactly warmups + repeatCount transcribe calls, the
\* warm-up calls before the first measured call, and the warm-up calls emit
\* no Run and do not set the baseline.
WarmupsThenMeasuredCalls ==
    (trials.pc \in {"done", "failed"} /\ ~trials.stop) =>
        \A s \in trials.decoded :
            LET mine == SelectSeq(trials.calls, LAMBDA c : c[1] = s)
            IN /\ Len(mine) = trials.wu + trials.rc
               /\ \A k \in DOMAIN mine :
                    mine[k][2] = (IF k <= trials.wu THEN "warmup" ELSE "measured")
               /\ Cardinality({ k \in DOMAIN trials.out : trials.out[k].sample = s })
                    = trials.rc

\* the batch whose runBenchmark is taking this step, as it is after the step
BatchAfterStep == IF bench'.pc = "idle" THEN lastBatch'.b ELSE bench'

\* C31: a step of a batch that updates the progress reports the total
\* samples.length * repeatCount of that batch and a current value that is
\* at most the total; a later update of the same batch reports the same
\* total and a current value that is not smaller.
ProgressStep ==
    (bench.pc # "idle" /\ progress' # progress) =>
        /\ progress'.total = BatchAfterStep.n * BatchAfterStep.rc
        /\ progress'.current <= progress'.total
        /\ bench.prog # << >> =>
             /\ progress = bench.prog[1]
             /\ progress'.total = progress.total
             /\ progress'.current >= progress.current

\* C31: every step of every behaviour is such a step.
ProgressMonotoneWithinBatch == [][ProgressStep]_vars

\* the second batch of a session is under way on its only sample, with one
\* of its two trials done
ProgressMonotoneWithinBatchWitness ==
    /\ bench.pc = "meas" /\ bench.batch = 2
    /\ bench.prog # << >>
    /\ progress = [current |-> 1, total |-> 2]
    /\ bench.n = 1

\* C32: a batch that runs is eventually over, with isRunning false and the
\* stop flag cleared; the stop flag is set only while a batch runs, and a
\* batch starts with the flag cleared, so it only ever sees a stop requested
\* while it runs.
BatchReturnsToIdle ==
    /\ isRunning ~> (~isRunning /\ ~stopRef /\ bench.pc = "idle")
    /\ [](~isRunning => ~stopRef /\ bench.pc = "idle")
    /\ [](bench.pc # "idle" => isRunning /\ (stopRef = bench.stopSeen))

\* the second batch of a session was stopped during a measured trial and is
\* over: isRunning is false and the stop flag is cleared
BatchReturnsToIdleWitness ==
    /\ ~isRunning /\ ~stopRef /\ bench.pc = "idle"
    /\ lastBatch.status = "completed"
    /\ lastBatch.b.batch = 2
    /\ lastBatch.b.stopInflight # << >>

\* C33: no two Runs emitted by one batch have the same id.
RunIdsUnique ==
    trials.pc # "idle" =>
        \A k, j \in DOMAIN trials.out : k # j => trials.out[k].id # trials.out[j].id

\* with samples of distinct rowIndex the ids differ
RunIdsUniqueForDistinctRows ==
    (trials.pc # "idle"
        /\ \A i, j \in DOMAIN trials.samples :
             i # j => trials.samples[i].rowIndex # trials.samples[j].rowIndex)
    => RunIdsUnique

\* C34: loadModelWithFallback compiles and downloads at most twice; a
\* second download is requested only after the first compile failed with
\* fp16 resolved for the encoder or the decoder, with fp32 for exactly the
\* components that resolved to fp16 and the other options as given;
\* retryUsed is true exactly when the returned model came from the second
\* compile; a first compile that fails without fp16 rethrows the original
\* error with no second download.
FallbackRetriesOnceForFp16 ==
    ldr.pc # "idle" =>
        /\ Len(ldr.downloads) <= 2 /\ Len(ldr.compiles) <= 2
        /\ Len(ldr.compiles) <= Len(ldr.downloads)
        /\ Len(ldr.downloads) = 2 =>
              /\ ldr.firstError = << "compile" >>
              /\ ldr.resolved[1].encoder = "fp16" \/ ldr.resolved[1].decoder = "fp16"
              /\ \A c \in {"encoder", "decoder"} :
                    ldr.downloads[2][c] = IF ldr.resolved[1][c] = "fp16" THEN "fp32"
                                          ELSE ldr.options[c]
        /\ ldr.pc = "returned" =>
              /\ ldr.returned[1].model = Len(ldr.compiles)
              /\ ldr.returned[1].retryUsed = (ldr.returned[1].model = 2)
        /\ (ldr.firstError # << >>
              /\ ldr.resolved[1].encoder # "fp16" /\ ldr.resolved[1].decoder # "fp16") =>
              /\ ldr.pc = "thrown" /\ ldr.thrown = ldr.firstError
              /\ Len(ldr.downloads) = 1 /\ Len(ldr.compiles) = 1

\* the first compile failed with the encoder resolved to fp16 and the
\* decoder to the int8 that was asked for; the second download asked for an
\* fp32 encoder and the int8 decoder, and its compile returned the model
FallbackRetriesOnceForFp16Witness ==
    /\ ldr.pc = "returned"
    /\ ldr.returned[1].retryUsed
    /\ ldr.options = [encoder |-> "fp16", decoder |-> "int8"]
    /\ ldr.resolved[1] = [encoder |-> "fp16", decoder |-> "int8"]
    /\ ldr.downloads[2] = [encoder |-> "fp32", decoder |-> "int8"]

\* the requests of a call of fetchSequentialRows so far are for at most 100
\* rows each, at consecutive offsets from startOffset (from 0 for a negative
\* one); the rows collected are those offsets in order and at most limit;
\* the call goes on exactly while fewer than limit rows are collected and
\* every page came back as long as requested
SequentialPagesBounded ==
    seq.pc # "idle" =>
        /\ Len(seq.rows) <= Max(0, seq.limit)
        /\ seq.rows = [i \in 1..Len(seq.rows) |-> Max(0, seq.startOffset) + i - 1]
        /\ \A i \in DOMAIN seq.requests :
              /\ seq.requests[i].length \in 1..100
              /\ seq.requests[i].offset = Max(0, seq.startOffset) + 100 * (i - 1)
        /\ Len(seq.requests) * 100 < seq.limit + 100
        /\ \A i \in DOMAIN seq.pages :
              /\ seq.pages[i] <= seq.requests[i].length
              /\ i < Len(seq.pages) => seq.pages[i] = seq.requests[i].length
        /\ seq.pc = "fetch" =>
              /\ Len(seq.rows) < seq.limit
              /\ Len(seq.pages) = Len(seq.requests) - 1
              /\ \A i \in DOMAIN seq.pages : seq.pages[i] = seq.requests[i].length
        /\ seq.pc = "returned" =>
              /\ Len(seq.pages) = Len(seq.requests)
              /\ \/ Len(seq.rows) = Max(0, seq.limit)
                 \/ seq.pages[Len(seq.pages)] < seq.requests[Len(seq.requests)].length

\* C35: fetchSequentialRows always terminates and returns at most limit
\* rows: it requests pages of at most 100 rows at consecutive offsets
\* starting from startOffset and stops as soon as limit rows are collected
\* or a page comes back empty or shorter than requested.
SequentialFetchTerminates ==
    /\ []SequentialPagesBounded
    /\ (seq.pc = "fetch") ~> (seq.pc \in {"returned", "thrown"})

\* a call for 201 rows from offset 7 returned after three full pages of
\* 100, 100 and 1 rows
SequentialFetchTerminatesWitness ==
    /\ seq.pc = "returned" /\ seq.limit = 201 /\ seq.startOffset = 7
    /\ seq.pages = << 100, 100, 1 >>
    /\ seq.requests[3] = [offset |-> 207, length |-> 1]
    /\ Len(seq.rows) = 201

\* a call returned fewer rows than limit after a short second page
SequentialFetchShortPageWitness ==
    /\ seq.pc = "returned" /\ seq.limit = 200
    /\ seq.pages = << 100, 99 >>

\* the tasks whose callback has begun and whose task() has not settled
QueueBusy == { i \in DOMAIN rq.tasks : rq.tasks[i].st \in {"sleeping", "running"} }

\* at most one task is being executed, every task enqueued before it has
\* settled, and the tasks were invoked in the order they were enqueued
RequestsOneAtATimeInOrder ==
    /\ Cardinality(QueueBusy) <= 1
    /\ \A i \in DOMAIN rq.tasks : rq.tasks[i].st # "queued" =>
          \A j \in 1..(i - 1) : rq.tasks[j].st \in {"resolved", "rejected"}
    /\ rq.order = [k \in 1..Len(rq.order) |-> k]
    /\ \A i \in DOMAIN rq.tasks :
          rq.tasks[i].st \in {"running", "resolved", "rejected"} <=> i <= Len(rq.order)

\* C36: requests passed to enqueueRequest are executed strictly one at a
\* time in the order they were enqueued, whichever callers enqueue them and
\* whenever; a request that fails does not keep the requests queued after it
\* from running: every enqueued request is eventually executed.
RequestQueueSerializes ==
    /\ []RequestsOneAtATimeInOrder
    /\ \A i \in 1..MaxTasks :
          (i \in DOMAIN rq.tasks) ~>
              (i \in DOMAIN rq.tasks /\ rq.tasks[i].st \in {"resolved", "rejected"})

\* the first request failed, the second of another caller had to sleep for
\* the gap, and the third runs
RequestQueueSerializesWitness ==
    /\ Len(rq.tasks) = 3
    /\ rq.tasks[1].st = "rejected"
    /\ rq.tasks[2].st = "resolved" /\ rq.tasks[2].caller # rq.tasks[1].caller
    /\ rq.tasks[3].st = "running"
    /\ rq.now > QueueClockStart

\* the elements of a sequence
Range(seq1) == { seq1[k] : k \in DOMAIN seq1 }

\* C37: a page fetch of fetchRandomRows that fails does not end the call:
\* the call goes on while a page of a selected offset is still to fetch,
\* and at return every selected offset appears in exactly one of offsets
\* and failedOffsets, once, and rows holds the rows of offsets in the same
\* order.
FailedPageDoesNotAbort ==
    \A p \in Invocations :
        /\ inv[p].pc = "pages" => PagesLeft(inv[p]) # {}
        /\ (inv[p].pc = "done" /\ smp.fn = "fetchRandomRows") =>
              /\ PagesLeft(inv[p]) = {}
              /\ Range(inv[p].ok) \cup Range(inv[p].failed) = inv[p].selected
              /\ Range(inv[p].ok) \cap Range(inv[p].failed) = {}
              /\ Len(inv[p].ok) + Len(inv[p].failed) = Cardinality(inv[p].selected)
              /\ Len(inv[p].rows) = Len(inv[p].ok)
              /\ \A k \in DOMAIN inv[p].ok : inv[p].rows[k] = inv[p].ok[k]

\* a call returned after its first page failed and a later page was fetched
\* and served its row
FailedPageDoesNotAbortWitness ==
    \E p \in Invocations :
        /\ inv[p].pc = "done"
        /\ Len(inv[p].failed) = 1 /\ Len(inv[p].ok) = 1
        /\ PageStart(inv[p].failed[1]) < PageStart(inv[p].ok[1])
        /\ Cardinality(inv[p].fetched) = 2

\* the promise a call of queueModelRelease returned has settled
ReturnedSettled(k) ==
    IF rel.returned[k] = 0 THEN TRUE ELSE rel.tasks[rel.returned[k]].st = "settled"

\* release() is called on the sessions of a model only when every task
\* queued before it has settled, and at the end on every session it holds
ReleasesInOrder ==
    \A i \in DOMAIN rel.tasks :
        /\ rel.tasks[i].st # "queued" =>
              \A j \in 1..(i - 1) : rel.tasks[j].st = "settled"
        /\ rel.tasks[i].st = "settled" =>
              /\ rel.tasks[i].released \cup rel.tasks[i].threw = rel.tasks[i].sessions
              /\ rel.tasks[i].pending = {}

\* C38: every model passed to queueModelRelease is eventually released,
\* provided each session release call settles: releaseModelResources is run
\* for it to the end, also after releases that threw or rejected, and the
\* promise queueModelRelease returned always settles.
EveryQueuedModelReleased ==
    /\ []ReleasesInOrder
    /\ \A i \in 1..MaxModels :
          (i \in DOMAIN rel.tasks) ~>
              (i \in DOMAIN rel.tasks /\ rel.tasks[i].st = "settled")
    /\ \A k \in 1..(2 * MaxModels + 1) :
          (k \in DOMAIN rel.returned) ~> (k \in DOMAIN rel.returned /\ ReturnedSettled(k))

\* every release() of the first model threw, and the second model has been
\* released with every session resolved; a call with no model returned the
\* promise of the second task, which has settled
EveryQueuedModelReleasedWitness ==
    /\ Len(rel.tasks) = 2
    /\ rel.tasks[1].st = "settled" /\ rel.tasks[1].threw = Sessions
    /\ rel.tasks[2].st = "settled" /\ rel.tasks[2].released = Sessions
    /\ Len(rel.returned) = 3 /\ rel.returned[3] = 2

\* the sum of the counts of a sequence of bins
RECURSIVE SumOfCounts(_)
SumOfCounts(bins) ==
    IF bins = << >> THEN 0 ELSE Head(bins).count + SumOfCounts(Tail(bins))

\* C39: for a non-empty list of values and a positive binWidth, histogram
\* counts every value in exactly one bin, so the counts sum to the number of
\* values, including when the largest value is a multiple of binWidth.
HistogramCountsEveryValue ==
    (calc.fn = "histogram" /\ calc.pc = "returned" /\ Len(calc.values) > 0) =>
        /\ \A k \in DOMAIN calc.values :
              Cardinality({ b \in DOMAIN calc.bins :
                              /\ calc.bins[b].lo <= calc.values[k]
                              /\ calc.values[k] < calc.bins[b].hi }) = 1
        /\ SumOfCounts(calc.bins) = Len(calc.values)

\* the values are counted when the largest is not a multiple of binWidth
HistogramCountsBelowBinEdge ==
    (calc.fn = "histogram" /\ calc.pc = "returned" /\ Len(calc.values) > 0
        /\ MaxOf(calc.values) % calc.binWidth # 0) =>
        HistogramCountsEveryValue

====
